---- MODULE Spec2Model ----
(***************************************************************************)
(* Verification model of qibolab's Qblox platform driver                   *)
(* (src/qibolab/platforms/multiqubit.py): MultiqubitPlatform.connect,      *)
(* sweep, _sweep_recursion and execute_pulse_sequence.                     *)
(*                                                                         *)
(* A behaviour is: the platform is constructed, connected (or not), and    *)
(* one sweep or execute_pulse_sequence call runs to its return or to the   *)
(* exception it raises.  The                                               *)
(* recursion of _sweep_recursion is an explicit call stack; a Python       *)
(* exception unwinds the whole stack (nothing in the engine catches it).   *)
(***************************************************************************)
EXTENDS Integers, Sequences, FiniteSets, TLC

VARIABLES
    is_connected,   \* Platform.is_connected
    instruments,    \* self.instruments, in dictionary order
    attenuation,    \* ro_port[qubit].attenuation
    gain,           \* qd_port[qubit].gain (the external gain)
    amplitude,      \* pulse.amplitude of the pulses of sequence_copy
    status,         \* "idle" | "sweep" | "done" | "error"
    err,            \* name of the exception raised, "" when none
    call,           \* the arguments of the running sweep call
    stack,          \* frames of _sweep_recursion, innermost last
    results,        \* id_results of sweep
    execs,          \* history: the execute_pulse_sequence calls issued
    eps,            \* position inside the running execute_pulse_sequence
    unrolling,      \* a running batch_max_* generator of instruments/unrolling.py
    routing,        \* a ShortestPaths transpiler of transpilers/routing.py
    placer,         \* a placer call of transpilers/placer.py
    transpiling,    \* a running Platform.transpile of platform.py
    result,         \* a result container of result.py
    oscillator,     \* a LocalOscillator of instruments/oscillator.py
    updating,       \* the Qubit records and the settings of a Platform of platform.py
    posting,        \* a running ERASynthEthernet.post of instruments/erasynth.py
    lifecycle,      \* the connection of a MultiqubitPlatform and of its instruments
    splitting,      \* a call of Zurich.create_sub_sequences
    zurich          \* a Zurich driver of instruments/zhinst.py and its last play or sweep

\* the state of the platform driver
platformVars == <<is_connected, instruments, attenuation, gain, amplitude,
                  status, err, call, stack, results, execs, eps>>

\* the state of the components that are independent of the platform driver
otherVars == <<unrolling, routing, placer, transpiling, result, oscillator, updating, posting, lifecycle, splitting, zurich>>

vars == <<platformVars, otherVars>>

-----------------------------------------------------------------------------
(* Bounds of the model *)

\* number of instruments of the platform
NumInstruments == 2

\* longest sweeper list passed to sweep
MaxSweepers == 2

\* longest list of sequences passed to a batch_max_* function
MaxSequences == 3

\* longest circuit (number of gates) given to a transpiler
MaxGates == 3

\* the samples argument of the Random placer goes up to MaxSamples
MaxSamples == 2

-----------------------------------------------------------------------------
(* Program constants *)

\* memory of a sequencer, in bins (2**17)
BinLimit == 131072

\* values of the ports before any sweep (from the runcard); any value but 1
RuncardGain == 0
RuncardAttenuation == 0
\* amplitude of a pulse as built by the caller; any value but 1
PulseAmplitude == 0

Qubits == {0, 1}

for_loop_sweepers == {"attenuation", "lo_frequency"}

rt_sweepers == {"frequency", "gain", "bias", "amplitude", "start",
                "duration", "relative_phase"}

-----------------------------------------------------------------------------
(* Pulses and sequences *)

\* type, qubit and channel of a pulse, and the local-oscillator frequency it
\* implies (pulse.frequency - if_frequency of its native gate)
PulseInfo(p) ==
    CASE p = "d0"  -> [type |-> "DRIVE",   qubit |-> 0, channel |-> "drive0", lo |-> 1]
      [] p = "d1"  -> [type |-> "DRIVE",   qubit |-> 1, channel |-> "drive1", lo |-> 1]
      [] p = "r0"  -> [type |-> "READOUT", qubit |-> 0, channel |-> "ro",     lo |-> 1]
      [] p = "r1"  -> [type |-> "READOUT", qubit |-> 1, channel |-> "ro",     lo |-> 1]
      [] p = "r1x" -> [type |-> "READOUT", qubit |-> 1, channel |-> "ro",     lo |-> 2]

\* the sequences given to sweep: with two multiplexed readout pulses, without
\* any, and with two readout pulses that need different LO frequencies on
\* their common port
Sequences == {{"d0", "d1", "r0", "r1"}, {"d0"}, {"d0", "r0", "r1x"}}

\* sequence.ro_pulses
ro_pulses(sequence) == {p \in sequence : PulseInfo(p).type = "READOUT"}

\* sequence.get_channel_pulses(*channels)
get_channel_pulses(sequence, channels) ==
    {p \in sequence : PulseInfo(p).channel \in channels}

-----------------------------------------------------------------------------
(* Sweeper values: a slice [from:to] of a base array (numpy semantics) *)

ExplicitBases ==
    [att2       |-> <<30, 20>>,
     lo2        |-> <<0, 1>>,
     gain3      |-> <<1, 2, 3>>,
     amp3       |-> <<1, 2, 3>>,
     phase_wrap |-> <<350, 355, 360, 365, 370>>,
     phase_mono |-> <<0, 5, 10>>]

\* np.arange(n) bases
ArangeBases == [freq20 |-> 20, big |-> BinLimit]

BaseLen(b) ==
    IF b \in DOMAIN ExplicitBases THEN Len(ExplicitBases[b]) ELSE ArangeBases[b]

\* element j (counted from 0) of base array b
BaseAt(b, j) ==
    IF b \in DOMAIN ExplicitBases THEN ExplicitBases[b][j + 1] ELSE j

Min(a, b) == IF a < b THEN a ELSE b

\* values[_from:_to]
Slice(v, from, to) ==
    LET lo == Min(v.from + from, v.to)
        hi == Min(v.from + to, v.to)
    IN [base |-> v.base, from |-> lo, to |-> IF hi < lo THEN lo ELSE hi]

\* len(values)
ValuesLen(v) == v.to - v.from

\* values[k], k counted from 1
ValueAt(v, k) == BaseAt(v.base, v.from + k - 1)

WholeBase(b) == [base |-> b, from |-> 0, to |-> BaseLen(b)]

\* Sweeper(parameter, values, pulses, qubits); pulses = {} stands for None
\* where the code never iterates over it
SweeperCatalogue ==
    { [parameter |-> "attenuation",    values |-> WholeBase("att2"),       pulses |-> {},           qubits |-> {0, 1}],
      [parameter |-> "lo_frequency",   values |-> WholeBase("lo2"),        pulses |-> {"r0"},       qubits |-> {}],
      [parameter |-> "frequency",      values |-> WholeBase("freq20"),     pulses |-> {"r0"},       qubits |-> {}],
      [parameter |-> "gain",           values |-> WholeBase("gain3"),      pulses |-> {"d0", "d1"}, qubits |-> {}],
      [parameter |-> "amplitude",      values |-> WholeBase("amp3"),       pulses |-> {"d0", "d1"}, qubits |-> {}],
      [parameter |-> "relative_phase", values |-> WholeBase("phase_wrap"), pulses |-> {"d0"},       qubits |-> {}],
      [parameter |-> "relative_phase", values |-> WholeBase("phase_mono"), pulses |-> {"d0"},       qubits |-> {}],
      [parameter |-> "start",          values |-> WholeBase("big"),        pulses |-> {"r0"},       qubits |-> {}] }

SweeperLists ==
    UNION { [1..n -> SweeperCatalogue] : n \in 0..MaxSweepers }

\* ExecutionParameters(nshots, averaging_mode)
Options ==
    [nshots : {1, 10000}, averaging_mode : {"SINGLESHOT", "CYCLIC"}]

-----------------------------------------------------------------------------
(* Instruments *)

InstrumentCatalogue ==
    { [class |-> "ClusterQRM_RF", roles |-> {"readout"}, channels |-> {"ro"}],
      [class |-> "ClusterQCM_RF", roles |-> {"control"}, channels |-> {"drive0", "drive1"}],
      [class |-> "SGS100A",       roles |-> {"other"},   channels |-> {}] }

\* "control" in roles[name] or "readout" in roles[name]
IsControlOrReadout(ins) == "control" \in ins.roles \/ "readout" \in ins.roles

-----------------------------------------------------------------------------
(* Values of the state *)

\* results[pulse.id] is None, or the results added so far (in order)
None == [none |-> TRUE, sum |-> <<>>]

ResultOf(k) == [none |-> FALSE, sum |-> <<k>>]

NoOptions == [nshots |-> 1, averaging_mode |-> "CYCLIC"]

NoCall == [sequence |-> {}, options |-> NoOptions, sweepers |-> <<>>]

NoEps ==
    [pc |-> "none", idx |-> 0, sequence |-> {}, sweepers |-> <<>>,
     nshots |-> 0, navgs |-> 0, num_bins |-> 0,
     processed |-> {}, uploaded |-> {}, played |-> {}, acquired |-> {},
     lo_frequency |-> {}, acquisition_results |-> {}]

NoResults == [id |-> <<>>, qubit |-> <<>>]

\* a * b for a, b >= 0, exact up to BinLimit and BinLimit + 1 above it: the
\* code compares these products with 2**17 and divides 2**17 by them, and
\* both give the same answer for every product above 2**17
CappedMul(a, b) ==
    IF b # 0 /\ a > BinLimit \div b THEN BinLimit + 1 ELSE a * b

\* the product of len(sweeper.values) over sweepers[from..]
RECURSIVE LenProduct(_, _)
LenProduct(sweepers, from) ==
    IF from > Len(sweepers) THEN 1
    ELSE CappedMul(ValuesLen(sweepers[from].values), LenProduct(sweepers, from + 1))

Reverse(s) == [k \in 1..Len(s) |-> s[Len(s) + 1 - k]]

Top == stack[Len(stack)]

SetTop(f) == [stack EXCEPT ![Len(stack)] = f]

-----------------------------------------------------------------------------
(* Python's binding of the arguments of a call of                          *)
(*   _sweep_recursion(self, sequence, options, sweepers, results)          *)

Params == <<"sequence", "options", "sweepers", "results">>

\* a call with npos positional arguments (after self) and the keyword
\* arguments kw binds iff no parameter gets two values and none is missing
BindOk(npos, kw) ==
    /\ npos <= Len(Params)
    /\ \A k \in 1..Len(Params) : (k <= npos) # (Params[k] \in kw)

\* tuple([split_sweeper]) + sweepers[1:] is defined for a tuple only
TupleConcatOk(kind) == kind = "tuple"

\* sweepers[0] needs a list or a tuple; a Sweeper object has no __getitem__
Subscriptable(kind) == kind \in {"list", "tuple"}

Frame(sweepers, kind, options) ==
    [sweepers |-> sweepers, kind |-> kind, options |-> options,
     pc |-> "enter", i |-> 0, shot |-> 0, from |-> 0]

\* no batch_max_* generator is running
NoUnrolling ==
    [fn |-> "none", sequences |-> <<>>, max |-> 0, i |-> 0, batch |-> <<>>,
     batch_total |-> 0, out |-> <<>>, pc |-> "none"]

\* ShortestPaths.__init__
NoRouting ==
    [pc |-> "none", err |-> "", connectivity |-> {}, initial_layout |-> <<>>,
     circuit |-> [nqubits |-> 0, queue |-> <<>>], _circuit_repr |-> <<>>, _graph |-> {}, _mapping |-> <<>>,
     _qubit_map |-> <<>>, _transpiled_circuit |-> <<>>, _circuit_position |-> 0,
     added_swaps |-> 0, hardware_mapped_circuit |-> <<>>, final_mapping |-> <<>>]

\* no placer has been called
NoPlacer ==
    [pc |-> "none", fn |-> "none", err |-> "",
     circuit |-> [given |-> FALSE, nqubits |-> 0, queue |-> <<>>],
     map |-> [type |-> "none", items |-> <<>>], connectivity |-> {},
     samples |-> 0, sampled |-> 0, final_mapping |-> <<>>, final_cost |-> 0,
     ok |-> FALSE, layout |-> <<>>]

\* no circuit is being transpiled
NoTranspile ==
    [pc |-> "none", err |-> "", queue |-> <<>>, moments |-> <<>>, m |-> 0, slot |-> 0,
     moment_start |-> 0, sequence |-> <<>>, virtual_z_phases |-> <<>>,
     already_processed |-> {}, pulses |-> <<>>]

\* no result container has been requested
NoResult ==
    [pc |-> "none", cls |-> "none", op |-> "none", err |-> "",
     args |-> [states |-> <<>>, shots |-> 0], _states |-> <<>>, lenght |-> <<>>,
     state_0_probability |-> <<>>, state_1_probability |-> <<>>,
     assigned |-> 0, averaged |-> <<>>,
     a |-> <<>>, b |-> <<>>, sum |-> <<>>]

\* no local oscillator has been created
NoOscillator ==
    [pc |-> "none", is_connected |-> FALSE, op |-> "none", err |-> "",
     settings |-> <<>>, device |-> <<>>, written |-> {},
     parameter |-> "", value |-> ""]

\* no platform has been created for an update
NoUpdate ==
    [pc |-> "none", err |-> "", settings |-> <<>>, qubits |-> <<>>,
     seen |-> {}, n |-> 0, unsupported |-> FALSE, last |-> <<>>]

\* no ERASynthEthernet.post is running
NoPost ==
    [pc |-> "none", name |-> "", value |-> 0, requests |-> <<>>,
     returns |-> "", raises |-> ""]

\* no MultiqubitPlatform has been created for its connection
NoLifecycle ==
    [pc |-> "none", is_connected |-> FALSE, connected |-> <<>>, reachable |-> <<>>,
     registered |-> FALSE, op |-> "none", err |-> "", calls |-> <<>>,
     open |-> FALSE, tried |-> FALSE]

\* Zurich.create_sub_sequences has not been called
NoSplit ==
    [pc |-> "none", sequence |-> <<>>, measurements |-> <<>>,
     control_sequence |-> {}, err |-> ""]

\* no Zurich driver has been created
NoZurich ==
    [pc |-> "none", op |-> "none", err |-> "",
     args |-> [sequence |-> <<>>, options |-> <<>>, sweepers |-> <<>>],
     processed_sweeps |-> [created |-> FALSE, _pulse_sweeps |-> {}, _channel_sweeps |-> {}],
     nt_sweeps |-> <<>>, rt_sweeps |-> <<>>, acquisition_type |-> "None",
     sequence |-> <<>>, experiment |-> [built |-> FALSE], axes |-> <<>>]

\* the driver after Zurich.__init__
ZurichCreated == [NoZurich EXCEPT !.pc = "created"]

-----------------------------------------------------------------------------
(* The state after construction *)

Init ==
    /\ is_connected = FALSE
    /\ instruments \in [1..NumInstruments -> InstrumentCatalogue]
    /\ attenuation = [q \in Qubits |-> RuncardAttenuation]
    /\ gain = [q \in Qubits |-> RuncardGain]
    /\ amplitude = <<>>
    /\ status = "idle"
    /\ err = ""
    /\ call = NoCall
    /\ stack = <<>>
    /\ results = NoResults
    /\ execs = <<>>
    /\ eps = NoEps
    /\ unrolling = NoUnrolling
    /\ routing = NoRouting
    /\ placer = NoPlacer
    /\ transpiling = NoTranspile
    /\ result = NoResult
    /\ oscillator = NoOscillator
    /\ updating = NoUpdate
    /\ posting = NoPost
    /\ lifecycle = NoLifecycle
    /\ splitting = NoSplit
    /\ zurich = NoZurich

\* an exception leaves through every frame: nothing catches it
Raise(name) ==
    /\ status' = "error"
    /\ err' = name
    /\ stack' = <<>>
    /\ eps' = NoEps

\* MultiqubitPlatform.connect
connect ==
    /\ UNCHANGED otherVars
    /\ status = "idle"
    /\ ~is_connected
    /\ \E ok \in BOOLEAN :
          IF ok THEN is_connected' = TRUE /\ err' = ""
                ELSE is_connected' = FALSE /\ err' = "RuntimeError"
    /\ UNCHANGED <<instruments, attenuation, gain, amplitude, status, call,
                   stack, results, execs, eps>>

-----------------------------------------------------------------------------
(* MultiqubitPlatform.sweep *)

contains_attenuation_frequency(s) ==
    \E i \in 1..(Len(s) - 1) :
        s[i].parameter = "attenuation" /\ s[i + 1].parameter = "frequency"

\* the copy of a sweeper: its pulses that are in sequence_copy
SweeperCopy(sw, sequence) ==
    [sw EXCEPT !.pulses = {p \in sw.pulses : p \in sequence}]

\* reversed, except for a resonator punchout (attenuation, frequency)
sweepers_copy(sweepers, sequence) ==
    LET c == [k \in 1..Len(sweepers) |-> SweeperCopy(sweepers[k], sequence)]
    IN IF contains_attenuation_frequency(c) THEN c ELSE Reverse(c)

sweep(sequence, options, sweepers) ==
    /\ UNCHANGED otherVars
    /\ status = "idle"
    /\ is_connected
    /\ status' = "sweep"
    /\ err' = ""
    /\ call' = [sequence |-> sequence, options |-> options, sweepers |-> sweepers]
    /\ amplitude' = [p \in sequence |-> PulseAmplitude]
    /\ results' = [id    |-> [p \in ro_pulses(sequence) |-> None],
                   qubit |-> [q \in {PulseInfo(p).qubit : p \in ro_pulses(sequence)} |-> None]]
    /\ stack' = <<Frame(sweepers_copy(sweepers, sequence), "list", options)>>
    /\ execs' = <<>>
    /\ UNCHANGED <<is_connected, instruments, attenuation, gain, eps>>

-----------------------------------------------------------------------------
(* MultiqubitPlatform.execute_pulse_sequence *)

ClusterClasses == {"ClusterQRM_RF", "ClusterQCM_RF", "ClusterQCM"}

\* _los of a port: the LO frequencies implied by its readout and drive pulses
PortLos(sequence, channel) ==
    {PulseInfo(p).lo : p \in {x \in get_channel_pulses(sequence, {channel}) :
                                 PulseInfo(x).type \in {"READOUT", "DRIVE"}}}

\* the comparison of the LO frequencies of a port left out
LoConflictIgnored(sequence, ins) == FALSE

\* some port of the instrument carries pulses that imply different LOs
LoConflict(sequence, ins) ==
    \E c \in ins.channels : Cardinality(PortLos(sequence, c)) > 1

\* the state of a call at its first loop: nshots, navgs and num_bins
EpsStart(sequence, options, sweepers) ==
    LET nshots == IF options.averaging_mode = "SINGLESHOT" THEN options.nshots ELSE 1
        navgs  == IF options.averaging_mode = "SINGLESHOT" THEN 1 ELSE options.nshots
    IN [NoEps EXCEPT !.pc = "upload", !.idx = 1,
                     !.sequence = sequence, !.sweepers = sweepers,
                     !.nshots = nshots, !.navgs = navgs,
                     !.num_bins = CappedMul(nshots, LenProduct(sweepers, 1))]

\* history record of an issued execution, with the port and pulse settings
\* in force when it is issued (att: the attenuations at that time)
ExecRecord(sequence, options, sweepers, rt, att) ==
    LET e == EpsStart(sequence, options, sweepers)
    IN [rt |-> rt, sweepers |-> sweepers, nshots |-> e.nshots,
        navgs |-> e.navgs, num_bins |-> e.num_bins,
        attenuation |-> att, gain |-> gain, amplitude |-> amplitude]

\* a connected platform starts the execution
Issue(sequence, options, sweepers, rt, att) ==
    /\ eps' = EpsStart(sequence, options, sweepers)
    /\ execs' = Append(execs, ExecRecord(sequence, options, sweepers, rt, att))

\* a call made by the user, outside any sweep
execute_pulse_sequence(sequence, options) ==
    /\ UNCHANGED otherVars
    /\ status = "idle"
    /\ call' = [sequence |-> sequence, options |-> options, sweepers |-> <<>>]
    /\ amplitude' = [p \in sequence |-> PulseAmplitude]
    /\ results' = NoResults
    /\ IF ~is_connected
       THEN Raise("RuntimeError") /\ execs' = <<>>
       ELSE /\ eps' = EpsStart(sequence, options, <<>>)
            /\ execs' = <<ExecRecord(sequence, options, <<>>, FALSE, attenuation)>>
            /\ status' = "exec"
            /\ err' = ""
            /\ stack' = <<>>
    /\ UNCHANGED <<is_connected, instruments, attenuation, gain>>

AfterUploadInterleaved(i) == [pc |-> "play", idx |-> i]

\* where the code goes after the upload of instrument i
AfterUpload(i) ==
    IF i < Len(instruments) THEN [pc |-> "upload", idx |-> i + 1]
                            ELSE [pc |-> "play", idx |-> 1]

AfterPlay(i) ==
    IF i < Len(instruments) THEN [pc |-> "play", idx |-> i + 1]
                            ELSE [pc |-> "acquire", idx |-> 1]

AfterAcquire(i) ==
    IF i < Len(instruments) THEN [pc |-> "acquire", idx |-> i + 1]
                            ELSE [pc |-> "finish", idx |-> 0]

Goto(e, to) == [e EXCEPT !.pc = to.pc, !.idx = to.idx]

\* first loop, one instrument: LO check, process_pulse_sequence, upload
EpsUpload ==
    /\ UNCHANGED otherVars
    /\ eps.pc = "upload"
    /\ LET i   == eps.idx
           ins == instruments[i]
       IN IF ~IsControlOrReadout(ins)
          THEN /\ eps' = Goto(eps, AfterUpload(i))
               /\ UNCHANGED <<status, err, stack>>
          ELSE IF ins.class \in ClusterClasses /\ LoConflict(eps.sequence, ins)
          THEN Raise("ValueError")
          ELSE /\ eps' = Goto([eps EXCEPT
                          !.lo_frequency = @ \cup
                              (IF ins.class \in ClusterClasses
                               THEN UNION {{<<i, c, lo>> : lo \in PortLos(eps.sequence, c)} : c \in ins.channels}
                               ELSE {}),
                          !.processed = @ \cup {i},
                          !.uploaded = @ \cup {i}], AfterUpload(i))
               /\ UNCHANGED <<status, err, stack>>
    /\ UNCHANGED <<is_connected, instruments, attenuation, gain, amplitude,
                   call, results, execs>>

\* second loop, one instrument: play_sequence
EpsPlay ==
    /\ UNCHANGED otherVars
    /\ eps.pc = "play"
    /\ LET i == eps.idx
       IN eps' = Goto([eps EXCEPT !.played =
                          IF IsControlOrReadout(instruments[i]) THEN @ \cup {i} ELSE @],
                      AfterPlay(i))
    /\ UNCHANGED <<is_connected, instruments, attenuation, gain, amplitude,
                   status, err, call, stack, results, execs>>

\* third loop, one instrument: acquire
EpsAcquire ==
    /\ UNCHANGED otherVars
    /\ eps.pc = "acquire"
    /\ LET i   == eps.idx
           ins == instruments[i]
           ro  == ro_pulses(get_channel_pulses(eps.sequence, ins.channels))
       IN eps' = Goto(IF "readout" \in ins.roles /\ ro # {}
                      THEN [eps EXCEPT !.acquired = @ \cup {i},
                                       !.acquisition_results = @ \cup ro]
                      ELSE eps,
                      AfterAcquire(i))
    /\ UNCHANGED <<is_connected, instruments, attenuation, gain, amplitude,
                   status, err, call, stack, results, execs>>

\* the result of every readout pulse is wrapped and returned to the caller
EpsFinish ==
    /\ UNCHANGED otherVars
    /\ eps.pc = "finish"
    /\ IF ~(ro_pulses(eps.sequence) \subseteq eps.acquisition_results)
       THEN Raise("KeyError")
       ELSE /\ eps' = NoEps
            /\ err' = err
            /\ IF stack = <<>>
               THEN status' = "done" /\ stack' = stack
               ELSE /\ status' = status
                    /\ stack' = SetTop([Top EXCEPT !.pc =
                          IF @ = "forloop_exec" THEN "forloop_acc" ELSE "rt_acc"])
    /\ UNCHANGED <<is_connected, instruments, attenuation, gain, amplitude,
                   call, results, execs>>

-----------------------------------------------------------------------------
(* MultiqubitPlatform._sweep_recursion *)

Running == status = "sweep" /\ stack # <<>> /\ eps.pc = "none"

\* the function returns to its caller; the outermost return ends sweep,
\* which then hands the results over under the original serials
FrameReturn ==
    /\ stack' = SubSeq(stack, 1, Len(stack) - 1)
    /\ status' = IF Len(stack) = 1 THEN "done" ELSE status
    /\ UNCHANGED <<err, eps>>

\* the recursive call: the caller waits at `resume`, the callee is entered
Push(resume, callee) == stack' = Append(SetTop(resume), callee)

PhaseCodeRange == 1000000

\* qblox_q1asm.convert_phase: the phase, taken modulo a full turn, as a
\* fraction of the code range, truncated to an integer (phases in degrees)
convert_phase(v) == ((v % 360) * PhaseCodeRange) \div 360

\* np.diff(c_values)[k] < 0, k counted from 0
Decreases(values, k) ==
    convert_phase(ValueAt(values, k + 2)) < convert_phase(ValueAt(values, k + 1))

\* any(np.diff(c_values) < 0)
HasDecrease(values) ==
    \E k \in 0..(ValuesLen(values) - 2) : Decreases(values, k)

\* np.append(np.where(np.diff(c_values) < 0), len(c_values) - 1), from k on
RECURSIVE CutIndices(_, _)
CutIndices(values, k) ==
    IF k > ValuesLen(values) - 2 THEN <<ValuesLen(values) - 1>>
    ELSE IF Decreases(values, k) THEN <<k>> \o CutIndices(values, k + 1)
    ELSE CutIndices(values, k + 1)

FirstIsRealTime(sweepers) == sweepers[1].parameter \in rt_sweepers

\* all(s.parameter in rt_sweepers for s in sweepers)
AllRealTime(sweepers) ==
    \A k \in 1..Len(sweepers) : sweepers[k].parameter \in rt_sweepers

FitsMemoryInclusive(num_bins) == num_bins <= BinLimit

\* num_bins < 2**17
FitsMemory(num_bins) == num_bins < BinLimit

\* nshots of _sweep_recursion
SweepShots(options) ==
    IF options.averaging_mode = "SINGLESHOT" THEN options.nshots ELSE 1

\* lines 596-649: the first sweeper is staged and the branch is chosen
RecursionEnter ==
    /\ UNCHANGED otherVars
    /\ Running
    /\ Top.pc = "enter"
    /\ LET f == Top
       IN IF ~Subscriptable(f.kind)
          THEN Raise("TypeError") /\ UNCHANGED <<gain, amplitude>>
          ELSE IF Len(f.sweepers) = 0
          THEN Raise("IndexError") /\ UNCHANGED <<gain, amplitude>>
          ELSE LET sweeper == f.sweepers[1]
               IN /\ gain' = IF sweeper.parameter = "gain"
                             THEN [q \in Qubits |->
                                     IF \E p \in sweeper.pulses : PulseInfo(p).qubit = q
                                     THEN 1 ELSE gain[q]]
                             ELSE gain
                  /\ amplitude' = IF sweeper.parameter = "amplitude"
                                  THEN [p \in DOMAIN amplitude |->
                                          IF p \in sweeper.pulses THEN 1 ELSE amplitude[p]]
                                  ELSE amplitude
                  /\ stack' = SetTop([f EXCEPT
                        !.pc = IF sweeper.parameter \in for_loop_sweepers
                               THEN "forloop" ELSE "rt",
                        !.i = 1])
                  /\ UNCHANGED <<status, err, eps>>
    /\ UNCHANGED <<is_connected, instruments, attenuation, call, results, execs>>

\* lines 651-671: one value of a for-loop sweeper
ForLoopIter ==
    /\ UNCHANGED otherVars
    /\ Running
    /\ Top.pc = "forloop"
    /\ LET f       == Top
           sweeper == f.sweepers[1]
       IN IF f.i > ValuesLen(sweeper.values)
          THEN FrameReturn /\ UNCHANGED <<attenuation, execs>>
          ELSE LET value == ValueAt(sweeper.values, f.i)
                   \* set_lo_readout_frequency(qubit, freq) called with one argument
                   lo_call == sweeper.parameter = "lo_frequency"
                              /\ \E p \in sweeper.pulses :
                                    PulseInfo(p).type \in {"READOUT", "DRIVE"}
                   next == [f EXCEPT !.i = @ + 1]
               IN /\ attenuation' =
                        IF sweeper.parameter = "attenuation"
                        THEN [q \in Qubits |->
                                IF q \in sweeper.qubits THEN value ELSE attenuation[q]]
                        ELSE attenuation
                  /\ IF lo_call
                     THEN Raise("TypeError") /\ UNCHANGED execs
                     ELSE IF Len(f.sweepers) > 1
                     THEN \* _sweep_recursion(sequence, options=options, *sweepers[1:], results=results)
                          IF BindOk(Len(f.sweepers), {"options", "results"})
                          THEN /\ Push(next, Frame(<<f.sweepers[3]>>, "object", f.options))
                               /\ UNCHANGED <<status, err, eps, execs>>
                          ELSE Raise("TypeError") /\ UNCHANGED execs
                     ELSE \* execute_pulse_sequence(sequence=sequence, options=options)
                          IF ~is_connected
                          THEN Raise("RuntimeError") /\ UNCHANGED execs
                          ELSE /\ Issue(call.sequence, f.options, <<>>, FALSE, attenuation')
                               /\ stack' = SetTop([f EXCEPT !.pc = "forloop_exec"])
                               /\ UNCHANGED <<status, err>>
    /\ UNCHANGED <<is_connected, instruments, gain, amplitude, call, results>>

\* results[pulse.id] += result[pulse.serial]
Add(r, k) == [none |-> FALSE, sum |-> Append(r.sum, k)]

\* lines 722-725: None becomes the result, a value is added to
Accumulate(r, k) == IF r.none THEN ResultOf(k) ELSE Add(r, k)

\* lines 672-674: the result of the execution is added to the results
ForLoopAccumulate ==
    /\ UNCHANGED otherVars
    /\ Running
    /\ Top.pc = "forloop_acc"
    /\ LET ro == ro_pulses(call.sequence)
           k  == Len(execs)
       IN IF \E p \in ro : results.id[p].none
          THEN \* None += result
               Raise("TypeError") /\ UNCHANGED results
          ELSE /\ results' =
                    [id    |-> [p \in ro |-> Add(results.id[p], k)],
                     qubit |-> [q \in DOMAIN results.qubit |-> Add(results.qubit[q], k)]]
               /\ stack' = SetTop([Top EXCEPT !.pc = "forloop", !.i = @ + 1])
               /\ UNCHANGED <<status, err, eps>>
    /\ UNCHANGED <<is_connected, instruments, attenuation, gain, amplitude,
                   call, execs>>

\* lines 676-775 up to the first call: the real-time branch is chosen
RtDispatch ==
    /\ UNCHANGED otherVars
    /\ Running
    /\ Top.pc = "rt"
    /\ LET f        == Top
           sweeper  == f.sweepers[1]
           nshots   == SweepShots(f.options)
           num_bins == CappedMul(nshots, LenProduct(f.sweepers, 1))
           sweepers_repetitions == LenProduct(f.sweepers, 1)
       IN IF sweeper.parameter = "relative_phase" /\ HasDecrease(sweeper.values)
          THEN /\ stack' = SetTop([f EXCEPT !.pc = "phasesplit", !.i = 1, !.from = 0])
               /\ UNCHANGED <<status, err, eps, execs>>
          ELSE IF ~AllRealTime(f.sweepers)
          THEN Raise("Exception") /\ UNCHANGED execs
          ELSE IF FitsMemory(num_bins)
          THEN IF ~is_connected
               THEN Raise("RuntimeError") /\ UNCHANGED execs
               ELSE /\ Issue(call.sequence, f.options, f.sweepers, TRUE, attenuation)
                    /\ stack' = SetTop([f EXCEPT !.pc = "rt_exec"])
                    /\ UNCHANGED <<status, err>>
          ELSE /\ stack' = SetTop([f EXCEPT
                     !.pc = IF sweepers_repetitions < BinLimit
                            THEN "shotsplit" ELSE "valuesplit",
                     !.i = 0, !.shot = 0])
               /\ UNCHANGED <<status, err, eps, execs>>
    /\ UNCHANGED <<is_connected, instruments, attenuation, gain, amplitude,
                   call, results>>

\* lines 720-728: the result is folded into the results, the frame returns
RtAccumulate ==
    /\ UNCHANGED otherVars
    /\ Running
    /\ Top.pc = "rt_acc"
    /\ LET ro == ro_pulses(call.sequence)
           k  == Len(execs)
       IN results' =
             [id    |-> [p \in ro |-> Accumulate(results.id[p], k)],
              qubit |-> [q \in DOMAIN results.qubit |->
                           Accumulate(results.id[CHOOSE p \in ro : PulseInfo(p).qubit = q], k)]]
    /\ FrameReturn
    /\ UNCHANGED <<is_connected, instruments, attenuation, gain, amplitude,
                   call, execs>>

\* lines 686-701: one sub-sweep of a relative-phase sweeper that wraps
PhaseSplitIter ==
    /\ UNCHANGED otherVars
    /\ Running
    /\ Top.pc = "phasesplit"
    /\ LET f       == Top
           sweeper == f.sweepers[1]
           cuts    == CutIndices(sweeper.values, 0)
       IN IF f.i > Len(cuts)
          THEN FrameReturn
          ELSE LET _to           == cuts[f.i] + 1
                   split_sweeper == [sweeper EXCEPT !.values = Slice(@, f.from, _to)]
                   next          == [f EXCEPT !.i = @ + 1, !.from = _to]
               IN \* _sweep_recursion(sequence, options=options,
                  \*     *(tuple([split_sweeper]) + sweepers[1:]), results=results)
                  IF TupleConcatOk(f.kind)
                     /\ BindOk(1 + Len(f.sweepers), {"options", "results"})
                  THEN /\ Push(next, Frame(<<split_sweeper>> \o Tail(f.sweepers), "tuple", f.options))
                       /\ UNCHANGED <<status, err, eps>>
                  ELSE Raise("TypeError")
    /\ UNCHANGED <<is_connected, instruments, attenuation, gain, amplitude,
                   call, results, execs>>

\* lines 735-746: one chunk of shots
ShotSplitIter ==
    /\ UNCHANGED otherVars
    /\ Running
    /\ Top.pc = "shotsplit"
    /\ LET f             == Top
           nshots        == SweepShots(f.options)
           max_rt_nshots == BinLimit \div LenProduct(f.sweepers, 1)
           num_full_sft_iterations == nshots \div max_rt_nshots
       IN IF f.i > num_full_sft_iterations
          THEN FrameReturn
          ELSE \* _nshots is computed and not passed on:
               \* _sweep_recursion(sequence, options, *sweepers, results=results)
               IF BindOk(2 + Len(f.sweepers), {"results"})
               THEN /\ Push([f EXCEPT !.i = @ + 1],
                            Frame(<<f.sweepers[1]>>, "object", f.options))
                    /\ UNCHANGED <<status, err, eps>>
               ELSE Raise("TypeError")
    /\ UNCHANGED <<is_connected, instruments, attenuation, gain, amplitude,
                   call, results, execs>>

\* lines 748-772: one chunk of the values of the outermost sweeper
ValueSplitIter ==
    /\ UNCHANGED otherVars
    /\ Running
    /\ Top.pc = "valuesplit"
    /\ LET f        == Top
           sweeper  == f.sweepers[1]
           nshots   == SweepShots(f.options)
           num_bins == LenProduct(f.sweepers, 2)
           max_rt_iterations == BinLimit \div num_bins
       IN IF f.shot >= nshots
          THEN FrameReturn
          ELSE IF max_rt_iterations = 0
          THEN \* len(sweeper.values) // max_rt_iterations
               Raise("ZeroDivisionError")
          ELSE IF f.i > ValuesLen(sweeper.values) \div max_rt_iterations
          THEN /\ stack' = SetTop([f EXCEPT !.shot = @ + 1, !.i = 0])
               /\ UNCHANGED <<status, err, eps>>
          ELSE LET _from == f.i * max_rt_iterations
                   _to   == Min((f.i + 1) * max_rt_iterations, ValuesLen(sweeper.values))
                   split_sweeper == [sweeper EXCEPT !.values = Slice(@, _from, _to)]
               IN \* _sweep_recursion(sequence, options,
                  \*     *(tuple([split_sweeper]) + sweepers[1:]), results=results)
                  IF TupleConcatOk(f.kind) /\ BindOk(2 + Len(f.sweepers), {"results"})
                  THEN /\ Push([f EXCEPT !.i = @ + 1],
                               Frame(<<split_sweeper>>, "object", f.options))
                       /\ UNCHANGED <<status, err, eps>>
                  ELSE Raise("TypeError")
    /\ UNCHANGED <<is_connected, instruments, attenuation, gain, amplitude,
                   call, results, execs>>

-----------------------------------------------------------------------------

\* the user calls sweep, or execute_pulse_sequence, with some arguments
SweepCall ==
    /\ status = "idle"
    /\ \E sequence \in Sequences, options \in Options, sweepers \in SweeperLists :
          sweep(sequence, options, sweepers)

ExecuteCall ==
    /\ status = "idle"
    /\ \E sequence \in Sequences, options \in Options :
          execute_pulse_sequence(sequence, options)

Next ==
    \/ connect
    \/ SweepCall
    \/ ExecuteCall
    \/ RecursionEnter
    \/ ForLoopIter
    \/ ForLoopAccumulate
    \/ RtDispatch
    \/ RtAccumulate
    \/ PhaseSplitIter
    \/ ShotSplitIter
    \/ ValueSplitIter
    \/ EpsUpload
    \/ EpsPlay
    \/ EpsAcquire
    \/ EpsFinish

Spec == Init /\ [][Next]_vars

-----------------------------------------------------------------------------
(* instruments/unrolling.py: batch_max_sequences, batch_max_duration and   *)
(* batch_max_readout.  A behaviour is one call: the generator is created   *)
(* on some list of sequences and some bound, and is consumed to its end.   *)

\* the platform driver is not involved
PlatformUnused ==
    /\ is_connected = FALSE
    /\ instruments = <<>>
    /\ attenuation = [q \in Qubits |-> RuncardAttenuation]
    /\ gain = [q \in Qubits |-> RuncardGain]
    /\ amplitude = <<>>
    /\ status = "unused"
    /\ err = ""
    /\ call = NoCall
    /\ stack = <<>>
    /\ results = NoResults
    /\ execs = <<>>
    /\ eps = NoEps

\* what the functions read of a PulseSequence: its duration, the duration
\* of its readout pulses, and the number of its readout pulses
PulseSequenceCatalogue ==
    { [duration |-> 1, ro_duration |-> 0, ro_pulses |-> 0],
      [duration |-> 3, ro_duration |-> 2, ro_pulses |-> 1],
      [duration |-> 5, ro_duration |-> 2, ro_pulses |-> 2],
      [duration |-> 2, ro_duration |-> 2, ro_pulses |-> 3] }

SequenceLists ==
    UNION { [1..n -> PulseSequenceCatalogue] : n \in 0..MaxSequences }

\* max_size of batch_max_sequences: a positive number of sequences
MaxSizes == 1..2

\* max_duration and max_measurements
MaxBounds == 0..2

\* what a sequence adds to the running total of its batch
\*   sequence.duration - sequence.ro_pulses.duration, len(sequence.ro_pulses)
Measure(fn, sequence) ==
    IF fn = "batch_max_duration" THEN sequence.duration - sequence.ro_duration
                                 ELSE sequence.ro_pulses

ExceedsRelaxed(total, max) == total > max + 1

ExceedsEager(total, max) == total >= max

\* duration + batch_duration > max_duration
Exceeds(total, max) == total > max

NewBatchEmpty(sequence) == <<>>

\* batch_duration, batch = duration, [sequence]
NewBatch(sequence) == <<sequence>>

\* more_itertools.take(n, iterator) with the iterator at position i
take(n, sequences, i) == SubSeq(sequences, i, Min(i + n - 1, Len(sequences)))

InitUnrolling ==
    /\ PlatformUnused
    /\ \E fn \in {"batch_max_sequences", "batch_max_duration", "batch_max_readout"} :
       \E sequences \in SequenceLists :
       \E max \in (IF fn = "batch_max_sequences" THEN MaxSizes ELSE MaxBounds) :
          unrolling = [NoUnrolling EXCEPT !.fn = fn, !.sequences = sequences,
                                          !.max = max, !.i = 1, !.pc = "loop"]
    /\ routing = NoRouting
    /\ placer = NoPlacer
    /\ transpiling = NoTranspile
    /\ result = NoResult
    /\ oscillator = NoOscillator
    /\ updating = NoUpdate
    /\ posting = NoPost
    /\ lifecycle = NoLifecycle
    /\ splitting = NoSplit
    /\ zurich = NoZurich

\* chunked(sequences, max_size): one chunk, or the end of the iteration
batch_max_sequences ==
    /\ unrolling.fn = "batch_max_sequences"
    /\ unrolling.pc = "loop"
    /\ LET u     == unrolling
           chunk == take(u.max, u.sequences, u.i)
       IN unrolling' =
             IF chunk = <<>> THEN [u EXCEPT !.pc = "done"]
             ELSE [u EXCEPT !.out = Append(@, chunk), !.i = @ + Len(chunk)]
    /\ UNCHANGED <<platformVars, routing, placer, transpiling, result, oscillator, updating, posting, lifecycle, splitting, zurich>>

\* one pass of the loop of batch_max_duration or batch_max_readout, or the
\* final yield after the loop
GreedyStep(fn) ==
    /\ unrolling.fn = fn
    /\ unrolling.pc = "loop"
    /\ LET u == unrolling
       IN IF u.i > Len(u.sequences)
          THEN unrolling' = [u EXCEPT !.out = Append(@, u.batch), !.pc = "done"]
          ELSE LET sequence == u.sequences[u.i]
                   measure  == Measure(fn, sequence)
               IN IF Exceeds(measure + u.batch_total, u.max)
                  THEN unrolling' = [u EXCEPT !.out = Append(@, u.batch),
                                              !.batch_total = measure,
                                              !.batch = NewBatch(sequence),
                                              !.i = @ + 1]
                  ELSE unrolling' = [u EXCEPT !.batch = Append(@, sequence),
                                              !.batch_total = @ + measure,
                                              !.i = @ + 1]
    /\ UNCHANGED <<platformVars, routing, placer, transpiling, result, oscillator, updating, posting, lifecycle, splitting, zurich>>

batch_max_duration == GreedyStep("batch_max_duration")

batch_max_readout == GreedyStep("batch_max_readout")

NextUnrolling ==
    \/ batch_max_sequences
    \/ batch_max_duration
    \/ batch_max_readout

SpecUnrolling == InitUnrolling /\ [][NextUnrolling]_vars

-----------------------------------------------------------------------------
(* transpilers/routing.py: ShortestPaths.  A behaviour is one call of the  *)
(* transpiler on some circuit, connectivity and initial layout.  Physical  *)
(* qubit "q<i>" is the number i.  sampling_split is 1.0 (the default).     *)

\* the nodes q0..q3 of the connectivity graphs
Nodes == 0..3

\* a line, a star and a ring; an edge is the set of its two nodes
ConnectivityCatalogue ==
    { {{0, 1}, {1, 2}, {2, 3}},
      {{2, 0}, {2, 1}, {2, 3}},
      {{0, 1}, {1, 2}, {2, 3}, {3, 0}} }

\* a dict in insertion order: a sequence of <<key, value>>, key i for "q<i>"
Dict(values) == [k \in 1..Len(values) |-> <<k - 1, values[k]>>]

\* the values of a layout, as the function physical qubit -> value
LayoutValues(layout) == [i \in 0..(Len(layout) - 1) |-> layout[i + 1][2]]

\* three valid layouts, and one that maps two physical qubits to qubit 2
LayoutCatalogue ==
    { Dict(<<0, 1, 2, 3>>), Dict(<<3, 2, 1, 0>>), Dict(<<1, 2, 0, 3>>),
      Dict(<<0, 1, 2, 2>>) }

assert_mapping_consistency_keys(layout) ==
    \A k \in 1..Len(layout) : layout[k][1] = k - 1

\* placer.assert_mapping_consistency: the keys are q0, q1, ... in this
\* order, and the sorted values are 0, 1, ...
assert_mapping_consistency(layout) ==
    /\ \A k \in 1..Len(layout) : layout[k][1] = k - 1
    /\ \A v \in 0..(Len(layout) - 1) :
          Cardinality({k \in 1..Len(layout) : layout[k][2] = v}) = 1

\* placer.assert_placement(circuit, layout), with nqubits = circuit.nqubits
assert_placement(nqubits, layout) ==
    IF ~assert_mapping_consistency(layout) THEN FALSE
    ELSE nqubits = Len(layout)

GateCatalogue ==
    { [name |-> "H",    qubits |-> <<3>>],
      [name |-> "CZ",   qubits |-> <<0, 2>>],
      [name |-> "CZ",   qubits |-> <<0, 3>>],
      [name |-> "CZ",   qubits |-> <<1, 2>>],
      [name |-> "CZ",   qubits |-> <<1, 3>>],
      [name |-> "CZ",   qubits |-> <<2, 3>>],
      [name |-> "CNOT", qubits |-> <<1, 0>>] }

\* circuit.queue of the circuits given to the transpilers
Circuits == UNION { [1..n -> GateCatalogue] : n \in 0..MaxGates }

\* abstract.create_circuit_repr: the sorted qubit pair of every two-qubit
\* gate of the queue, in order
RECURSIVE create_circuit_repr(_, _)
create_circuit_repr(queue, k) ==
    IF k > Len(queue) THEN <<>>
    ELSE LET q == queue[k].qubits
         IN (IF Len(q) = 2
             THEN << <<Min(q[1], q[2]), IF q[1] < q[2] THEN q[2] ELSE q[1]>> >>
             ELSE <<>>) \o create_circuit_repr(queue, k + 1)

\* nx.relabel_nodes(graph, mapping)
relabel_nodes(graph, mapping) == { {mapping[x] : x \in e} : e \in graph }

\* ShortestPaths.reduce: the longest prefix of gates on edges is deleted
RECURSIVE reduce(_, _)
reduce(circuit_repr, graph) ==
    IF circuit_repr # <<>> /\ {circuit_repr[1][1], circuit_repr[1][2]} \in graph
    THEN reduce(Tail(circuit_repr), graph)
    ELSE circuit_repr

\* gate.on_qubits(...): the gate of the queue at position k on new qubits
OnQubits(queue, k, qubit_map) ==
    [name |-> queue[k].name, gate |-> k,
     qubits |-> [j \in 1..Len(queue[k].qubits) |-> qubit_map[queue[k].qubits[j]]]]

\* ShortestPaths.add_gates, from the loop test on: the transpiled circuit
\* and the circuit position it ends with
RECURSIVE add_gates(_, _, _, _, _, _)
add_gates(queue, position, index, matched_gates, qubit_map, transpiled) ==
    IF position >= Len(queue)
    THEN [_transpiled_circuit |-> transpiled, _circuit_position |-> position]
    ELSE IF Len(queue[position + 1].qubits) = 1
    THEN add_gates(queue, position + 1, index, matched_gates, qubit_map,
                   Append(transpiled, OnQubits(queue, position + 1, qubit_map)))
    ELSE IF index + 1 = matched_gates + 1
    THEN [_transpiled_circuit |-> transpiled, _circuit_position |-> position]
    ELSE add_gates(queue, position + 1, index + 1, matched_gates, qubit_map,
                   Append(transpiled, OnQubits(queue, position + 1, qubit_map)))

\* the simple paths of k nodes of the graph from source to target
RECURSIVE Paths(_, _, _, _)
Paths(graph, source, target, k) ==
    IF k = 1 THEN (IF source = target THEN {<<source>>} ELSE {})
    ELSE UNION { { <<source>> \o p : p \in { x \in Paths(graph, n, target, k - 1) :
                                               \A j \in 1..Len(x) : x[j] # source } }
                 : n \in { y \in Nodes : y # source /\ {source, y} \in graph } }

\* nx.all_shortest_paths(graph, source, target), as a set: the paths of the
\* smallest number of nodes for which there is one (k or more)
RECURSIVE all_shortest_paths(_, _, _, _)
all_shortest_paths(graph, source, target, k) ==
    IF k > Cardinality(Nodes) THEN {}
    ELSE IF Paths(graph, source, target, k) # {} THEN Paths(graph, source, target, k)
    ELSE all_shortest_paths(graph, source, target, k + 1)

WalkInPlace(path, i) == [x \in Nodes |-> x]

\* ShortestPaths.map_list: the walk of meeting point i on the path, as the
\* relabelling of the nodes (the nodes off the path keep their label)
Walk(path, i) ==
    LET path_middle == SubSeq(path, 2, Len(path) - 1)
        values == SubSeq(path_middle, 1, i) \o <<path[1], path[Len(path)]>>
                     \o SubSeq(path_middle, i + 1, Len(path_middle))
    IN [x \in Nodes |->
          IF \E k \in 1..Len(path) : path[k] = x
          THEN values[CHOOSE k \in 1..Len(path) : path[k] = x]
          ELSE x]

\* for j, (f1, f2) in pairwise(nodes): SWAP(qubit_map[f1], qubit_map[f2])
Swaps(nodes, qubit_map) ==
    [j \in 1..(Len(nodes) - 1) |->
        [name |-> "SWAP", gate |-> 0,
         qubits |-> <<qubit_map[nodes[j]], qubit_map[nodes[j + 1]]>>]]

add_swaps_forward(path, meeting_point, qubit_map) ==
    Swaps(SubSeq(path, 1, meeting_point + 1), qubit_map)

\* ShortestPaths.add_swaps: the SWAP gates of the walk
add_swaps(path, meeting_point, qubit_map) ==
    LET forward  == SubSeq(path, 1, meeting_point + 1)
        rest     == SubSeq(path, meeting_point + 2, Len(path))
        backward == [k \in 1..Len(rest) |-> rest[Len(rest) + 1 - k]]
    IN Swaps(forward, qubit_map) \o Swaps(backward, qubit_map)

update_qubit_map_stale(qubit_map, mapping) == qubit_map

update_qubit_map_once(qubit_map, mapping) ==
    [v \in DOMAIN qubit_map |->
        IF \E key \in DOMAIN mapping : mapping[key] = v /\ key # v /\ \A x \in DOMAIN mapping : (x < key => mapping[x] = x)
        THEN qubit_map[CHOOSE key \in DOMAIN mapping : mapping[key] = v]
        ELSE qubit_map[v]]

\* ShortestPaths.update_qubit_map
update_qubit_map(qubit_map, mapping) ==
    [v \in DOMAIN qubit_map |->
        IF \E key \in DOMAIN mapping : mapping[key] = v
        THEN qubit_map[CHOOSE key \in DOMAIN mapping : mapping[key] = v]
        ELSE qubit_map[v]]

\* np.sort(values): position q holds the value with q smaller values
sort(values) ==
    [q \in DOMAIN values |->
        CHOOSE v \in {values[x] : x \in DOMAIN values} :
            Cardinality({x \in DOMAIN values : values[x] < v}) <= q
            /\ Cardinality({x \in DOMAIN values : values[x] <= v}) > q]

\* np.argsort(values)[q] for a permutation: the position that holds q
argsort(values) ==
    [q \in DOMAIN values |-> CHOOSE x \in DOMAIN values : values[x] = q]

remap_circuit_none(circuit, qubit_map) == circuit

\* remap_circuit(circuit, qubit_map)
remap_circuit(circuit, qubit_map) ==
    [k \in 1..Len(circuit) |->
        [circuit[k] EXCEPT !.qubits =
            [j \in 1..Len(circuit[k].qubits) |-> qubit_map[circuit[k].qubits[j]]]]]

InitRouting ==
    /\ PlatformUnused
    /\ unrolling = NoUnrolling
    /\ placer = NoPlacer
    /\ transpiling = NoTranspile
    /\ result = NoResult
    /\ oscillator = NoOscillator
    /\ updating = NoUpdate
    /\ posting = NoPost
    /\ lifecycle = NoLifecycle
    /\ splitting = NoSplit
    /\ zurich = NoZurich
    /\ \E connectivity \in ConnectivityCatalogue, layout \in LayoutCatalogue,
          circuit \in Circuits, nqubits \in {Cardinality(Nodes), Cardinality(Nodes) + 1},
          added_swaps \in {0, 1} :
          \* added_swaps is what an earlier call of the transpiler has left
          routing = [NoRouting EXCEPT !.pc = "call", !.connectivity = connectivity,
                                      !.initial_layout = layout,
                                      !.added_swaps = added_swaps,
                                      !.circuit = [nqubits |-> nqubits, queue |-> circuit]]

RoutingError(name) == routing' = [routing EXCEPT !.pc = "error", !.err = name]

\* ShortestPaths.__call__ up to the routing loop: initial_checks, the
\* circuit representation, the relabelled graph and first_transpiler_step
ShortestPaths ==
    /\ routing.pc = "call"
    /\ LET r     == routing
           nodes == Cardinality(Nodes)
       IN IF r.circuit.nqubits > nodes
          THEN RoutingError("ValueError")
          ELSE IF ~assert_placement(nodes, r.initial_layout)
          THEN RoutingError("ValueError")
          ELSE LET init_qubit_map == LayoutValues(r.initial_layout)
                   circuit_repr   == create_circuit_repr(r.circuit.queue, 1)
                   graph          == relabel_nodes(r.connectivity, init_qubit_map)
                   qubit_map      == sort(init_qubit_map)
                   reduced        == reduce(circuit_repr, graph)
                   added          == add_gates(r.circuit.queue, 0, 0,
                                               Len(circuit_repr) - Len(reduced),
                                               qubit_map, <<>>)
               IN routing' = [r EXCEPT
                     !.pc = "loop",
                     !._mapping = init_qubit_map,
                     !._graph = graph,
                     !._qubit_map = qubit_map,
                     !._circuit_repr = reduced,
                     !.added_swaps = 0,
                     !._transpiled_circuit = added._transpiled_circuit,
                     !._circuit_position = added._circuit_position]
    /\ UNCHANGED <<platformVars, unrolling, placer, transpiling, result, oscillator, updating, posting, lifecycle, splitting, zurich>>

\* the length of the circuit that the walk (path, i) leaves
WalkCost(r, path, i) ==
    Len(reduce(r._circuit_repr, relabel_nodes(r._graph, Walk(path, i))))

\* the meeting points tested on a path, in order (sampling_split = 1.0)
TestPaths(path) == 0..(Len(path) - 2)

\* ShortestPaths.transpiler_step: relocate, add_swaps, update_qubit_map and
\* add_gates.  relocate keeps the first walk that is strictly better than
\* all the walks before it; the paths come in the order of networkx, which
\* is any order here
transpiler_step ==
    /\ routing.pc = "loop"
    /\ routing._circuit_repr # <<>>
    /\ LET r         == routing
           circuit   == reduce(r._circuit_repr, r._graph)
           path_list == all_shortest_paths(r._graph, circuit[1][1], circuit[1][2], 1)
           walks     == UNION {{<<p, i>> : i \in TestPaths(p)} : p \in path_list}
           cost      == [w \in walks |-> WalkCost(r, w[1], w[2])]
           best      == CHOOSE c \in {cost[w] : w \in walks} : \A w \in walks : c <= cost[w]
       IN IF path_list = {}
          THEN RoutingError("NetworkXNoPath")
          ELSE IF best >= Len(circuit)
          THEN \* final_path is not bound
               RoutingError("UnboundLocalError")
          ELSE \E final_path \in {w[1] : w \in {x \in walks : cost[x] = best}} :
               \E meeting_point \in {i \in TestPaths(final_path) :
                     /\ cost[<<final_path, i>>] = best
                     /\ \A j \in 0..(i - 1) : cost[<<final_path, j>>] # best} :
               \E final_mapping \in {Walk(final_path, meeting_point)} :
               \E qubit_map \in {update_qubit_map(r._qubit_map, final_mapping)} :
                  LET final_graph   == relabel_nodes(r._graph, final_mapping)
                      final_circuit == reduce(r._circuit_repr, final_graph)
                      swapped       == r._transpiled_circuit
                                          \o add_swaps(final_path, meeting_point, r._qubit_map)
                      added         == add_gates(r.circuit.queue, r._circuit_position, 0,
                                                 Len(r._circuit_repr) - Len(final_circuit),
                                                 qubit_map, swapped)
                  IN routing' = [r EXCEPT
                        !.added_swaps = @ + Len(final_path) - 2,
                        !._graph = final_graph,
                        !._mapping = final_mapping,
                        !._circuit_repr = final_circuit,
                        !._qubit_map = qubit_map,
                        !._transpiled_circuit = added._transpiled_circuit,
                        !._circuit_position = added._circuit_position]
    /\ UNCHANGED <<platformVars, unrolling, placer, transpiling, result, oscillator, updating, posting, lifecycle, splitting, zurich>>

\* the end of ShortestPaths.__call__: the routing loop has ended
ShortestPathsReturn ==
    /\ routing.pc = "loop"
    /\ routing._circuit_repr = <<>>
    /\ LET r == routing
           init_qubit_map == LayoutValues(r.initial_layout)
       IN routing' = [r EXCEPT
             !.pc = "done",
             !.final_mapping = [i \in Nodes |-> r._qubit_map[init_qubit_map[i]]],
             !.hardware_mapped_circuit =
                 remap_circuit(r._transpiled_circuit, argsort(init_qubit_map))]
    /\ UNCHANGED <<platformVars, unrolling, placer, transpiling, result, oscillator, updating, posting, lifecycle, splitting, zurich>>

NextRouting ==
    \/ ShortestPaths
    \/ transpiler_step
    \/ ShortestPathsReturn

SpecRouting == InitRouting /\ [][NextRouting]_vars

-----------------------------------------------------------------------------
(* transpilers/placer.py: assert_placement and the placers Trivial, Custom, *)
(* Subgraph and Random.  A behaviour is one call.  A dict is the sequence  *)
(* of its items <<key, value>> in insertion order, the key i standing for  *)
(* the name "q<i>".                                                        *)

\* the dicts given as layouts: valid ones, items out of order, a missing
\* key, a repeated value, a value out of range, the empty dict
DictCatalogue ==
    LayoutCatalogue \cup
    { Dict(<<0, 1, 2>>), Dict(<<2, 0, 1>>),
      << <<1, 0>>, <<0, 1>>, <<2, 2>> >>,
      << <<0, 0>>, <<2, 1>> >>,
      Dict(<<0, 0, 1>>), Dict(<<0, 1, 3>>), <<>> }

\* Custom.map: a dict, a list or a value of another type
MapCatalogue ==
    { [type |-> "dict", items |-> d] : d \in DictCatalogue } \cup
    { [type |-> t, items |-> l] : t \in {"list", "tuple"},
                                  l \in {<<1, 2, 0>>, <<0, 1, 2, 3>>, <<0, 0, 1>>} }

\* random.sample(range(nodes), nodes)
random_sample ==
    { p \in [1..Cardinality(Nodes) -> Nodes] :
        \A a, b \in 1..Cardinality(Nodes) : p[a] = p[b] => a = b }

\* a dict as the function from its keys to their values
Items(d) ==
    [key \in {d[k][1] : k \in 1..Len(d)} |->
        d[CHOOSE k \in 1..Len(d) : d[k][1] = key][2]]

InitPlacer ==
    /\ PlatformUnused
    /\ unrolling = NoUnrolling
    /\ routing = NoRouting
    /\ transpiling = NoTranspile
    /\ result = NoResult
    /\ oscillator = NoOscillator
    /\ updating = NoUpdate
    /\ posting = NoPost
    /\ lifecycle = NoLifecycle
    /\ splitting = NoSplit
    /\ zurich = NoZurich
    /\ \/ \E nqubits \in 1..(Cardinality(Nodes) + 1), d \in DictCatalogue :
             placer = [NoPlacer EXCEPT !.pc = "call", !.fn = "assert_placement",
                          !.circuit = [given |-> TRUE, nqubits |-> nqubits, queue |-> <<>>],
                          !.map = [type |-> "dict", items |-> d]]
       \/ \E nqubits \in 1..(Cardinality(Nodes) + 1) :
             placer = [NoPlacer EXCEPT !.pc = "call", !.fn = "Trivial",
                          !.circuit = [given |-> TRUE, nqubits |-> nqubits, queue |-> <<>>]]
       \/ \E nqubits \in 0..(Cardinality(Nodes) + 1), map \in MapCatalogue :
             placer = [NoPlacer EXCEPT !.pc = "call", !.fn = "Custom", !.map = map,
                          !.circuit = [given |-> nqubits > 0, nqubits |-> nqubits,
                                       queue |-> <<>>]]
       \/ \E connectivity \in ConnectivityCatalogue, queue \in Circuits :
             placer = [NoPlacer EXCEPT !.pc = "call", !.fn = "Subgraph",
                          !.connectivity = connectivity,
                          !.circuit = [given |-> TRUE, nqubits |-> Cardinality(Nodes),
                                       queue |-> queue]]
       \/ \E connectivity \in ConnectivityCatalogue, samples \in 0..MaxSamples,
             queue \in {c \in Circuits : Len(c) < MaxGates} :
             placer = [NoPlacer EXCEPT !.pc = "call", !.fn = "Random",
                          !.connectivity = connectivity, !.samples = samples,
                          !.circuit = [given |-> TRUE, nqubits |-> Cardinality(Nodes),
                                       queue |-> queue]]

PlacerReturn(layout) == placer' = [placer EXCEPT !.pc = "done", !.layout = layout]

PlacerError(name) == placer' = [placer EXCEPT !.pc = "error", !.err = name]

\* a call of assert_placement(circuit, layout)
CallAssertPlacement ==
    /\ placer.pc = "call"
    /\ placer.fn = "assert_placement"
    /\ placer' = [placer EXCEPT !.pc = "done",
                     !.ok = assert_placement(placer.circuit.nqubits, placer.map.items)]
    /\ UNCHANGED <<platformVars, unrolling, routing, transpiling, result, oscillator, updating, posting, lifecycle, splitting, zurich>>

\* Trivial.__call__
Trivial ==
    /\ placer.pc = "call"
    /\ placer.fn = "Trivial"
    /\ PlacerReturn([k \in 1..placer.circuit.nqubits |-> <<k - 1, k - 1>>])
    /\ UNCHANGED <<platformVars, unrolling, routing, transpiling, result, oscillator, updating, posting, lifecycle, splitting, zurich>>

\* Custom.__call__
Custom ==
    /\ placer.pc = "call"
    /\ placer.fn = "Custom"
    /\ LET map == IF placer.map.type = "list" THEN Dict(placer.map.items)
                                              ELSE placer.map.items
       IN IF placer.map.type \notin {"dict", "list"} THEN PlacerError("TypeError")
          ELSE IF placer.circuit.given
          THEN (IF ~assert_placement(placer.circuit.nqubits, map)
                THEN PlacerError("ValueError") ELSE PlacerReturn(map))
          ELSE IF ~assert_mapping_consistency(map)
          THEN PlacerError("ValueError") ELSE PlacerReturn(map)
    /\ UNCHANGED <<platformVars, unrolling, routing, transpiling, result, oscillator, updating, posting, lifecycle, splitting, zurich>>

\* Subgraph.__call__ up to the subgraph matching of networkx
Subgraph ==
    /\ placer.pc = "call"
    /\ placer.fn = "Subgraph"
    /\ IF Len(create_circuit_repr(placer.circuit.queue, 1)) < 3
       THEN PlacerError("ValueError")
       ELSE placer' = [placer EXCEPT !.pc = "matching"]
    /\ UNCHANGED <<platformVars, unrolling, routing, transpiling, result, oscillator, updating, posting, lifecycle, splitting, zurich>>

\* Random.cost; circuit_repr is not empty (allowed is unbound otherwise)
Random_cost(graph, circuit_repr) ==
    LET total_len == Len(circuit_repr)
        breaks    == {k \in 1..total_len :
                         {circuit_repr[k][1], circuit_repr[k][2]} \notin graph}
        allowed   == IF breaks = {} THEN total_len - 1
                     ELSE (CHOOSE k \in breaks : \A j \in breaks : k <= j) - 1
    IN total_len - allowed

\* Random.__call__ up to the sampling loop
Random ==
    /\ placer.pc = "call"
    /\ placer.fn = "Random"
    /\ LET circuit_repr  == create_circuit_repr(placer.circuit.queue, 1)
           nodes         == Cardinality(Nodes)
           final_mapping == [k \in 1..nodes |-> <<k - 1, k - 1>>]
           final_graph   == relabel_nodes(placer.connectivity, Items(final_mapping))
       IN IF circuit_repr = <<>> THEN PlacerError("UnboundLocalError")
          ELSE placer' = [placer EXCEPT !.pc = "sampling", !.sampled = 0,
                             !.final_mapping = final_mapping,
                             !.final_cost = Random_cost(final_graph, circuit_repr)]
    /\ UNCHANGED <<platformVars, unrolling, routing, transpiling, result, oscillator, updating, posting, lifecycle, splitting, zurich>>

\* one turn of the sampling loop of Random.__call__
RandomSample ==
    /\ placer.pc = "sampling"
    /\ placer.sampled < placer.samples
    /\ \E sample \in random_sample :
          LET circuit_repr == create_circuit_repr(placer.circuit.queue, 1)
              mapping      == [k \in 1..Cardinality(Nodes) |-> <<k - 1, sample[k]>>]
              graph        == relabel_nodes(placer.connectivity, Items(mapping))
              cost         == Random_cost(graph, circuit_repr)
          IN IF cost = 0 THEN PlacerReturn(mapping)
             ELSE IF cost < placer.final_cost
             THEN placer' = [placer EXCEPT !.sampled = @ + 1, !.final_mapping = mapping,
                                           !.final_cost = cost]
             ELSE placer' = [placer EXCEPT !.sampled = @ + 1]
    /\ UNCHANGED <<platformVars, unrolling, routing, transpiling, result, oscillator, updating, posting, lifecycle, splitting, zurich>>

\* the end of Random.__call__: return final_mapping
RandomReturn ==
    /\ placer.pc = "sampling"
    /\ placer.sampled = placer.samples
    /\ PlacerReturn(placer.final_mapping)
    /\ UNCHANGED <<platformVars, unrolling, routing, transpiling, result, oscillator, updating, posting, lifecycle, splitting, zurich>>

NextPlacer ==
    \/ CallAssertPlacement
    \/ Trivial
    \/ Custom
    \/ Subgraph
    \/ Random
    \/ RandomSample
    \/ RandomReturn

SpecPlacer == InitPlacer /\ [][NextPlacer]_vars

-----------------------------------------------------------------------------
(* platform.py: Platform.transpile, from a circuit to a pulse sequence.    *)
(* A behaviour is one call.  Angles are counted in units of pi/2.  A pulse *)
(* is the record of the fields that the code sets, which is also its       *)
(* serial; a PulseSequence is the sequence of its pulses as added.         *)

\* the qubits of the platform
PlatformQubits == 0..3

\* np.pi, in units of pi/2
Pi == 2

\* settings["native_gates"]["single_qubit"]
single_qubit_natives ==
    [qubit \in PlatformQubits |->
        [RX |-> [duration |-> 2 + qubit], MZ |-> [duration |-> 3]]]

\* settings["native_gates"]["two_qubit"]: the CZ templates under "1-0"
\* (with a flux pulse on qubit 2, which is not a qubit of the gate) and
\* under "1-2"
two_qubit_natives ==
    { [key |-> <<1, 0>>,
       CZ  |-> << [type |-> "qf", qubit |-> 1, relative_start |-> 0, duration |-> 2, phase |-> 0],
                  [type |-> "qf", qubit |-> 2, relative_start |-> 1, duration |-> 3, phase |-> 0],
                  [type |-> "virtual_z", qubit |-> 0, relative_start |-> 0, duration |-> 0, phase |-> 1] >>],
      [key |-> <<1, 2>>,
       CZ  |-> << [type |-> "qf", qubit |-> 2, relative_start |-> 1, duration |-> 1, phase |-> 0],
                  [type |-> "qf", qubit |-> 1, relative_start |-> 0, duration |-> 3, phase |-> 0],
                  [type |-> "virtual_z", qubit |-> 1, relative_start |-> 0, duration |-> 0, phase |-> 3] >>] }

\* the gates of the circuits given to transpile; parameters of U3 are
\* <<theta, phi, lam>>
TranspileGates ==
    { [name |-> "I",  qubits |-> <<0>>,    parameters |-> <<>>],
      [name |-> "Z",  qubits |-> <<0>>,    parameters |-> <<>>],
      [name |-> "RZ", qubits |-> <<1>>,    parameters |-> <<1>>],
      [name |-> "U3", qubits |-> <<0>>,    parameters |-> <<1, 2, 3>>],
      [name |-> "U3", qubits |-> <<1>>,    parameters |-> <<2, 0, 1>>],
      [name |-> "M",  qubits |-> <<0>>,    parameters |-> <<>>],
      [name |-> "M",  qubits |-> <<3, 2>>, parameters |-> <<>>],
      [name |-> "CZ", qubits |-> <<0, 1>>, parameters |-> <<>>],
      [name |-> "CZ", qubits |-> <<1, 2>>, parameters |-> <<>>],
      [name |-> "CZ", qubits |-> <<0, 2>>, parameters |-> <<>>],
      [name |-> "X",  qubits |-> <<1>>,    parameters |-> <<>>] }

Elements(tuple) == {tuple[k] : k \in 1..Len(tuple)}

Maximum(values) == CHOOSE v \in values : \A w \in values : w <= v

\* circuit.queue.moments of qibo: gate k of the queue goes to the first
\* moment that is free on all its qubits; a moment holds for every qubit
\* the gate on it (its position in the queue) or None (0)
RECURSIVE Moments(_, _, _, _)
Moments(queue, k, moments, moment_index) ==
    IF k > Len(queue) THEN moments
    ELSE LET qubits == Elements(queue[k].qubits)
             idx    == Maximum({moment_index[q] : q \in qubits})
             grown  == IF idx >= Len(moments)
                       THEN Append(moments, [q \in PlatformQubits |-> 0])
                       ELSE moments
         IN Moments(queue, k + 1,
                    [grown EXCEPT ![idx + 1] =
                        [q \in PlatformQubits |-> IF q \in qubits THEN k ELSE @[q]]],
                    [q \in PlatformQubits |->
                        IF q \in qubits THEN idx + 1 ELSE moment_index[q]])

\* PulseSequence.finish
finish(sequence) ==
    IF sequence = <<>> THEN 0
    ELSE Maximum({sequence[k].start + sequence[k].duration : k \in 1..Len(sequence)})

\* PulseSequence.get_qubit_pulses(*qubits)
get_qubit_pulses(sequence, qubits) ==
    SelectSeq(sequence, LAMBDA pulse : pulse.qubit \in qubits)

create_RX90_pulse_unphased(qubit, start, relative_phase) ==
    [type |-> "qd", start |-> start, duration |-> single_qubit_natives[qubit].RX.duration,
     relative_phase |-> 0, qubit |-> qubit]

\* Platform.create_RX90_pulse
create_RX90_pulse(qubit, start, relative_phase) ==
    [type |-> "qd", start |-> start, duration |-> single_qubit_natives[qubit].RX.duration,
     relative_phase |-> relative_phase, qubit |-> qubit]

create_MZ_pulse_unplaced(qubit, start) ==
    [type |-> "ro", start |-> 0, duration |-> single_qubit_natives[qubit].MZ.duration,
     relative_phase |-> 0, qubit |-> qubit]

\* Platform.create_MZ_pulse
create_MZ_pulse(qubit, start) ==
    [type |-> "ro", start |-> start, duration |-> single_qubit_natives[qubit].MZ.duration,
     relative_phase |-> 0, qubit |-> qubit]

pulse_sequence_settings_direct(qubits) ==
    {n \in two_qubit_natives : n.key = <<qubits[1], qubits[2]>>}

\* the template create_CZ_pulse_sequence uses for the qubits, if any
pulse_sequence_settings(qubits) ==
    LET direct  == {n \in two_qubit_natives : n.key = <<qubits[1], qubits[2]>>}
        reverse == {n \in two_qubit_natives : n.key = <<qubits[2], qubits[1]>>}
    IN IF direct # {} THEN direct ELSE reverse

\* Platform.create_CZ_pulse_sequence(qubits) with start = 0, for a template
RECURSIVE create_CZ_pulse_sequence(_, _)
create_CZ_pulse_sequence(settings, k) ==
    IF k > Len(settings)
    THEN [sequence |-> <<>>, virtual_z_phases |-> [q \in PlatformQubits |-> 0]]
    ELSE LET rest == create_CZ_pulse_sequence(settings, k + 1)
             s    == settings[k]
         IN IF s.type = "qf"
            THEN [rest EXCEPT !.sequence =
                     << [type |-> "qf", start |-> 0 + s.relative_start,
                         duration |-> s.duration, relative_phase |-> 0,
                         qubit |-> s.qubit] >> \o @]
            ELSE [rest EXCEPT !.virtual_z_phases[s.qubit] = @ + s.phase]

InitTranspile ==
    /\ PlatformUnused
    /\ unrolling = NoUnrolling
    /\ routing = NoRouting
    /\ placer = NoPlacer
    /\ result = NoResult
    /\ oscillator = NoOscillator
    /\ updating = NoUpdate
    /\ posting = NoPost
    /\ lifecycle = NoLifecycle
    /\ splitting = NoSplit
    /\ zurich = NoZurich
    /\ \E queue \in UNION { [1..n -> TranspileGates] : n \in 0..MaxGates } :
          transpiling = [NoTranspile EXCEPT !.pc = "call", !.queue = queue]

\* Platform.transpile up to the loop over the moments
transpile ==
    /\ transpiling.pc = "call"
    /\ transpiling' = [transpiling EXCEPT
          !.pc = "moment", !.m = 1,
          !.moments = Moments(transpiling.queue, 1, <<>>, [q \in PlatformQubits |-> 0]),
          !.sequence = <<>>,
          !.virtual_z_phases = [q \in PlatformQubits |-> 0],
          !.already_processed = {},
          !.pulses = [k \in 1..Len(transpiling.queue) |-> <<>>]]
    /\ UNCHANGED <<platformVars, unrolling, routing, placer, result, oscillator, updating, posting, lifecycle, splitting, zurich>>

\* for moment in circuit.queue.moments: moment_start = sequence.finish
transpile_moment ==
    /\ transpiling.pc = "moment"
    /\ transpiling.m <= Len(transpiling.moments)
    /\ transpiling' = [transpiling EXCEPT !.pc = "gate", !.slot = 0,
                                          !.moment_start = finish(transpiling.sequence)]
    /\ UNCHANGED <<platformVars, unrolling, routing, placer, result, oscillator, updating, posting, lifecycle, splitting, zurich>>

\* return sequence
transpile_return ==
    /\ transpiling.pc = "moment"
    /\ transpiling.m > Len(transpiling.moments)
    /\ transpiling' = [transpiling EXCEPT !.pc = "done"]
    /\ UNCHANGED <<platformVars, unrolling, routing, placer, result, oscillator, updating, posting, lifecycle, splitting, zurich>>

\* the gate of the inner loop: its position in the queue, 0 for None
CurrentGate == transpiling.moments[transpiling.m][transpiling.slot]

\* the inner loop is at a gate of this name that is not yet processed
AtGate(names) ==
    /\ transpiling.pc = "gate"
    /\ CurrentGate # 0
    /\ CurrentGate \notin transpiling.already_processed
    /\ transpiling.queue[CurrentGate].name \in names

\* already_processed.add(gate) and the next turn of the loops
Processed(t) ==
    LET added == [t EXCEPT !.already_processed = @ \cup {CurrentGate}]
    IN IF t.slot + 1 < Cardinality(PlatformQubits)
       THEN [added EXCEPT !.slot = @ + 1]
       ELSE [added EXCEPT !.pc = "moment", !.m = @ + 1]

\* gates.I, None or a gate that is already processed: pass
transpile_pass ==
    /\ transpiling.pc = "gate"
    /\ IF CurrentGate = 0 \/ CurrentGate \in transpiling.already_processed
       THEN TRUE
       ELSE transpiling.queue[CurrentGate].name = "I"
    /\ transpiling' = Processed(transpiling)
    /\ UNCHANGED <<platformVars, unrolling, routing, placer, result, oscillator, updating, posting, lifecycle, splitting, zurich>>

\* gates.Z and gates.RZ
transpile_Z ==
    /\ AtGate({"Z", "RZ"})
    /\ LET gate  == transpiling.queue[CurrentGate]
           qubit == gate.qubits[1]
           angle == IF gate.name = "Z" THEN Pi ELSE gate.parameters[1]
       IN transpiling' = Processed([transpiling EXCEPT !.virtual_z_phases[qubit] = @ + angle])
    /\ UNCHANGED <<platformVars, unrolling, routing, placer, result, oscillator, updating, posting, lifecycle, splitting, zurich>>

\* gates.U3
transpile_U3 ==
    /\ AtGate({"U3"})
    /\ LET t     == transpiling
           gate  == t.queue[CurrentGate]
           qubit == gate.qubits[1]
           theta == gate.parameters[1]
           phi   == gate.parameters[2]
           lam   == gate.parameters[3]
           phase1 == t.virtual_z_phases[qubit] + lam
           RX90_pulse_1 == create_RX90_pulse(qubit,
                              Maximum({finish(get_qubit_pulses(t.sequence, {qubit})),
                                       t.moment_start}),
                              phase1)
           phase2 == phase1 + theta
           RX90_pulse_2 == create_RX90_pulse(qubit,
                              RX90_pulse_1.start + RX90_pulse_1.duration, phase2 - Pi)
       IN transpiling' = Processed([t EXCEPT
             !.sequence = @ \o <<RX90_pulse_1, RX90_pulse_2>>,
             !.virtual_z_phases[qubit] = phase2 + phi])
    /\ UNCHANGED <<platformVars, unrolling, routing, placer, result, oscillator, updating, posting, lifecycle, splitting, zurich>>

measurement_start_moment(sequence, moment_start, target_qubits) == moment_start

\* measurement_start of a gates.M
measurement_start(sequence, moment_start, target_qubits) ==
    Maximum({finish(get_qubit_pulses(sequence, Elements(target_qubits))), moment_start})

\* gates.M
transpile_M ==
    /\ AtGate({"M"})
    /\ LET t      == transpiling
           gate   == t.queue[CurrentGate]
           start  == measurement_start(t.sequence, t.moment_start, gate.qubits)
           pulses == [k \in 1..Len(gate.qubits) |-> create_MZ_pulse(gate.qubits[k], start)]
       IN transpiling' = Processed([t EXCEPT
             !.sequence = @ \o pulses,
             !.pulses[CurrentGate] = pulses])
    /\ UNCHANGED <<platformVars, unrolling, routing, placer, result, oscillator, updating, posting, lifecycle, splitting, zurich>>

\* gates.CZ
transpile_CZ ==
    /\ AtGate({"CZ"})
    /\ LET t        == transpiling
           gate     == t.queue[CurrentGate]
           settings == pulse_sequence_settings(gate.qubits)
       IN IF settings = {}
          THEN transpiling' = [t EXCEPT !.pc = "error", !.err = "ValueError"]
          ELSE LET cz == create_CZ_pulse_sequence((CHOOSE n \in settings : TRUE).CZ, 1)
                   cz_qubits == {cz.sequence[k].qubit : k \in 1..Len(cz.sequence)}
                                   \cup Elements(gate.qubits)
                   cz_start  == Maximum({finish(get_qubit_pulses(t.sequence, cz_qubits)),
                                         t.moment_start})
                   shifted   == [k \in 1..Len(cz.sequence) |->
                                   [cz.sequence[k] EXCEPT !.start = @ + cz_start]]
               IN transpiling' = Processed([t EXCEPT
                     !.sequence = @ \o shifted,
                     !.virtual_z_phases =
                         [q \in PlatformQubits |-> @[q] + cz.virtual_z_phases[q]]])
    /\ UNCHANGED <<platformVars, unrolling, routing, placer, result, oscillator, updating, posting, lifecycle, splitting, zurich>>

\* any other gate: NotImplementedError
transpile_else ==
    /\ AtGate({"X"})
    /\ transpiling' = [transpiling EXCEPT !.pc = "error", !.err = "NotImplementedError"]
    /\ UNCHANGED <<platformVars, unrolling, routing, placer, result, oscillator, updating, posting, lifecycle, splitting, zurich>>

NextTranspile ==
    \/ transpile
    \/ transpile_moment
    \/ transpile_return
    \/ transpile_pass
    \/ transpile_Z
    \/ transpile_U3
    \/ transpile_M
    \/ transpile_CZ
    \/ transpile_else

SpecTranspile == InitTranspile /\ [][NextTranspile]_vars

-----------------------------------------------------------------------------
(* The result containers of result.py *)

\* bound: number of elements of the flat array handed to a constructor
MaxElements == 4

\* bound: number of elements of the flat i and q arrays of an IQResults
MaxIQ == 3

\* bound: number of assignments to the states of a container
MaxAssignments == 1

\* the entries of a numpy array of floats: the number num / den, den > 0
Frac(num, den) == [num |-> num, den |-> den]

LessEqual(x, y) == x.num * y.den <= y.num * x.den

Equal(x, y) == x.num * y.den = y.num * x.den

Plus(x, y) == Frac(x.num * y.den + y.num * x.den, x.den * y.den)

\* the values the entries of a state array are drawn from
Values == {Frac(0 - 1, 1), Frac(0, 1), Frac(1, 2), Frac(1, 1), Frac(2, 1)}

\* the shots of two bins of four: [[0, 1, 1, 0], [1, 1, 1, 0]]
TwoBinsOfFour ==
    [k \in 1..8 |-> Frac(<<0, 1, 1, 0, 1, 1, 1, 0>>[k], 1)]

\* the flat arrays handed to StateResults and AveragedStateResults
FlatArrays ==
    UNION { [1..n -> Values] : n \in 0..MaxElements } \cup {TwoBinsOfFour}

\* shots of the constructors, 0 for None
ShotsArguments == {0, 1, 2, 4}

\* numpy arrays: rows holds the entries of a 1-d array, the rows of a 2-d one
Array(ndim, rows) == [ndim |-> ndim, rows |-> rows]

\* the entries of an array
Entries(array) ==
    IF array.ndim = 1
    THEN {array.rows[k] : k \in 1..Len(array.rows)}
    ELSE UNION {{array.rows[b][k] : k \in 1..Len(array.rows[b])} : b \in 1..Len(array.rows)}

\* states.reshape(states.shape[0] // shots, shots) if shots else states
reshape(states, shots) ==
    IF shots = 0
    THEN Array(1, states)
    ELSE Array(2, [b \in 1..(Len(states) \div shots) |->
                      [k \in 1..shots |-> states[(b - 1) * shots + k]]])

\* numpy refuses to reshape an array into a shape of another size
reshape_fails(states, shots) ==
    shots # 0 /\ (Len(states) \div shots) * shots # Len(states)

\* np.all((values >= 0) & (values <= 1)) with the upper limit left out
in_range_lower(values) ==
    \A v \in Entries(values) : LessEqual(Frac(0, 1), v)

\* np.all((values >= 0) & (values <= 1))
in_range(values) ==
    \A v \in Entries(values) : LessEqual(Frac(0, 1), v) /\ LessEqual(v, Frac(1, 1))

\* the arrays assigned to the states of a container after its construction
AssignedArrays == {Array(2, << <<v>> >>) : v \in Values}

\* the samples of an IQResults: an i and a q voltage
IQSamples == {[i |-> 0, q |-> 1], [i |-> 1, q |-> 0]}

\* IQResults.__init__ with shots: the (bins, shots) grids of i and of q
IQResults(samples, shots) ==
    [i |-> [b \in 1..(Len(samples) \div shots) |->
               [k \in 1..shots |-> samples[(b - 1) * shots + k].i]],
     q |-> [b \in 1..(Len(samples) \div shots) |->
               [k \in 1..shots |-> samples[(b - 1) * shots + k].q]]]

\* the IQResults that are added
IQCatalogue ==
    {IQResults(samples, shots) :
        <<samples, shots>> \in
            {x \in (UNION { [1..n -> IQSamples] : n \in 1..MaxIQ }) \X (1..MaxIQ) :
                (Len(x[1]) \div x[2]) * x[2] = Len(x[1])}}

InitResult ==
    /\ PlatformUnused
    /\ unrolling = NoUnrolling
    /\ routing = NoRouting
    /\ placer = NoPlacer
    /\ transpiling = NoTranspile
    /\ oscillator = NoOscillator
    /\ updating = NoUpdate
    /\ posting = NoPost
    /\ lifecycle = NoLifecycle
    /\ splitting = NoSplit
    /\ zurich = NoZurich
    /\ \/ \E cls \in {"StateResults", "AveragedStateResults"} :
          \E states \in FlatArrays : \E shots \in ShotsArguments :
             result = [NoResult EXCEPT !.pc = "new", !.cls = cls,
                          !.args = [states |-> states, shots |-> shots]]
       \/ \E a \in IQCatalogue : \E b \in IQCatalogue :
             result = [NoResult EXCEPT !.pc = "ready", !.cls = "IQResults",
                          !.a = a, !.b = b]

\* StateResults.__init__, which AveragedStateResults.__init__ calls: the
\* assignment of self.states goes through the setter
StateResults_init ==
    /\ result.pc = "new"
    /\ result' =
          IF reshape_fails(result.args.states, result.args.shots)
             \/ ~in_range(reshape(result.args.states, result.args.shots))
          THEN [result EXCEPT !.pc = "raised", !.op = "__init__", !.err = "ValueError"]
          ELSE [result EXCEPT !.pc = "ready", !.op = "__init__",
                   !._states = <<reshape(result.args.states, result.args.shots)>>]
    /\ UNCHANGED <<platformVars, unrolling, routing, placer, transpiling, oscillator, updating, posting, lifecycle, splitting, zurich>>

\* the setter of StateResults.states, used after the construction
states_setter ==
    /\ result.pc = "ready"
    /\ result.cls \in {"StateResults", "AveragedStateResults"}
    /\ result.assigned < MaxAssignments
    /\ \E values \in AssignedArrays :
          result' =
             IF in_range(values)
             THEN [result EXCEPT !.op = "states", !.err = "",
                      !._states = <<values>>, !.assigned = @ + 1]
             ELSE [result EXCEPT !.op = "states", !.err = "ValueError",
                      !.assigned = @ + 1]
    /\ UNCHANGED <<platformVars, unrolling, routing, placer, transpiling, oscillator, updating, posting, lifecycle, splitting, zurich>>

\* np.count_nonzero(st == state) counting the entries that are not zero
count_nonzero_entries(st, state) ==
    Cardinality({k \in 1..Len(st) : ~Equal(st[k], Frac(0, 1))})

\* np.count_nonzero(st == state) for a row st
count_nonzero(st, state) ==
    Cardinality({k \in 1..Len(st) : Equal(st[k], Frac(state, 1))})

\* StateResults.lenght, a cached property: len(self.states[0])
lenght(r) ==
    IF r.lenght # <<>> THEN r.lenght[1] ELSE Len(r._states[1].rows[1])

\* StateResults.probability: one frequency for every bin
probability(r, state) ==
    [b \in 1..Len(r._states[1].rows) |->
        Frac(count_nonzero(r._states[1].rows[b], state), lenght(r))]

\* probability of a container whose states are a 1-d array: len() of a
\* number is a TypeError, unless the array is empty or lenght is cached
probability_fails(r) ==
    r._states[1].ndim = 1 /\ r._states[1].rows # <<>> /\ r.lenght = <<>>

\* reading probability and, with it, lenght for the first time
cache_lenght(r) ==
    IF r._states[1].rows = <<>> THEN r.lenght ELSE <<lenght(r)>>

\* StateResults.state_0_probability, a cached property
state_0_probability ==
    /\ result.pc = "ready"
    /\ result.cls \in {"StateResults", "AveragedStateResults"}
    /\ result.state_0_probability = <<>>
    /\ result._states[1].ndim = 2 \/ probability_fails(result)
    /\ result' =
          IF probability_fails(result)
          THEN [result EXCEPT !.op = "state_0_probability", !.err = "TypeError"]
          ELSE [result EXCEPT !.op = "state_0_probability", !.err = "",
                   !.lenght = cache_lenght(result),
                   !.state_0_probability = <<probability(result, 0)>>]
    /\ UNCHANGED <<platformVars, unrolling, routing, placer, transpiling, oscillator, updating, posting, lifecycle, splitting, zurich>>

\* StateResults.state_1_probability, a cached property
state_1_probability ==
    /\ result.pc = "ready"
    /\ result.cls \in {"StateResults", "AveragedStateResults"}
    /\ result.state_1_probability = <<>>
    /\ result._states[1].ndim = 2 \/ probability_fails(result)
    /\ result' =
          IF probability_fails(result)
          THEN [result EXCEPT !.op = "state_1_probability", !.err = "TypeError"]
          ELSE [result EXCEPT !.op = "state_1_probability", !.err = "",
                   !.lenght = cache_lenght(result),
                   !.state_1_probability = <<probability(result, 1)>>]
    /\ UNCHANGED <<platformVars, unrolling, routing, placer, transpiling, oscillator, updating, posting, lifecycle, splitting, zurich>>

RECURSIVE sum(_, _)
\* the sum of the entries of a row from position k on
sum(st, k) ==
    IF k > Len(st) THEN Frac(0, 1) ELSE Plus(st[k], sum(st, k + 1))

\* np.mean(st): of a row, or of a single entry of a 1-d array
mean(array, b) ==
    IF array.ndim = 1
    THEN array.rows[b]
    ELSE Frac(sum(array.rows[b], 1).num, sum(array.rows[b], 1).den * Len(array.rows[b]))

\* StateResults.average: AveragedStateResults(average, std=std), whose
\* states go through the setter as well (the standard deviation is left out)
average ==
    /\ result.pc = "ready"
    /\ result.cls \in {"StateResults", "AveragedStateResults"}
    /\ \E means \in {Array(1, [b \in 1..Len(result._states[1].rows) |->
                                  mean(result._states[1], b)])} :
          result' =
             IF in_range(means)
             THEN [result EXCEPT !.op = "average", !.err = "", !.averaged = <<means>>]
             ELSE [result EXCEPT !.op = "average", !.err = "ValueError"]
    /\ UNCHANGED <<platformVars, unrolling, routing, placer, transpiling, oscillator, updating, posting, lifecycle, splitting, zurich>>

\* np.append(x, y, axis=0) with the operands exchanged
append_reversed(x, y) == y \o x

\* np.append(x, y, axis=0) of two grids with rows of the same length
append(x, y) == x \o y

\* np.append fails when the rows of the two grids differ in length
append_fails(x, y) == Len(x[1]) # Len(y[1])

\* IQResults.__add__: IQResults(i, q) of the appended grids
IQResults_add ==
    /\ result.pc = "ready"
    /\ result.cls = "IQResults"
    /\ result' =
          IF append_fails(result.a.i, result.b.i)
          THEN [result EXCEPT !.pc = "raised", !.op = "__add__", !.err = "ValueError"]
          ELSE [result EXCEPT !.pc = "done", !.op = "__add__",
                   !.sum = <<[i |-> append(result.a.i, result.b.i),
                              q |-> append(result.a.q, result.b.q)]>>]
    /\ UNCHANGED <<platformVars, unrolling, routing, placer, transpiling, oscillator, updating, posting, lifecycle, splitting, zurich>>

NextResult ==
    \/ StateResults_init
    \/ states_setter
    \/ state_0_probability
    \/ state_1_probability
    \/ average
    \/ IQResults_add

SpecResult == InitResult /\ [][NextResult]_vars

-----------------------------------------------------------------------------
(* The local oscillators of instruments/oscillator.py *)

\* the fields of LocalOscillatorSettings
Parameters == {"power", "frequency", "ref_osc_source"}

\* the values a parameter is set to
ParameterValues == {"None", "low", "high"}

\* the values the parameters of the physical device have
DeviceValues == {"low", "high"}

InitOscillator ==
    /\ PlatformUnused
    /\ unrolling = NoUnrolling
    /\ routing = NoRouting
    /\ placer = NoPlacer
    /\ transpiling = NoTranspile
    /\ result = NoResult
    /\ updating = NoUpdate
    /\ posting = NoPost
    /\ lifecycle = NoLifecycle
    /\ splitting = NoSplit
    /\ zurich = NoZurich
    /\ \E ref_osc_source \in ParameterValues : \E device \in [Parameters -> DeviceValues] :
          oscillator = [NoOscillator EXCEPT
             !.pc = "ready", !.device = device,
             !.settings = [p \in Parameters |->
                              IF p = "ref_osc_source" THEN ref_osc_source ELSE "None"]]

\* the setter of a parameter
_setter(instrument, parameter, value) ==
    IF instrument.settings[parameter] # value
    THEN IF instrument.is_connected
         THEN [instrument EXCEPT !.settings[parameter] = value,
                                 !.device[parameter] = value,
                                 !.written = {parameter}]
         ELSE [instrument EXCEPT !.settings[parameter] = value, !.written = {}]
    ELSE [instrument EXCEPT !.written = {}]

\* an assignment to the property of a parameter
set_parameter ==
    /\ oscillator.pc = "ready"
    /\ \E parameter \in Parameters : \E value \in ParameterValues :
          oscillator' = [_setter(oscillator, parameter, value) EXCEPT
                            !.op = "setter", !.err = "",
                            !.parameter = parameter, !.value = value]
    /\ UNCHANGED <<platformVars, unrolling, routing, placer, transpiling, result, updating, posting, lifecycle, splitting, zurich>>

\* LocalOscillator.sync that only downloads
sync_download(instrument, parameter) ==
    IF instrument.settings[parameter] = "None"
    THEN [instrument EXCEPT !.settings[parameter] = instrument.device[parameter]]
    ELSE instrument

\* LocalOscillator.sync
sync(instrument, parameter) ==
    IF instrument.settings[parameter] = "None"
    THEN [instrument EXCEPT !.settings[parameter] = instrument.device[parameter]]
    ELSE [instrument EXCEPT !.device[parameter] = instrument.settings[parameter],
                            !.written = @ \cup {parameter}]

\* LocalOscillator.connect
connect_oscillator ==
    /\ oscillator.pc = "ready"
    /\ oscillator' =
          IF ~oscillator.is_connected
          THEN sync(sync(sync([oscillator EXCEPT
                                  !.is_connected = TRUE, !.op = "connect", !.err = "",
                                  !.written = {}],
                              "power"), "frequency"), "ref_osc_source")
          ELSE [oscillator EXCEPT !.op = "connect", !.err = "RuntimeError", !.written = {}]
    /\ UNCHANGED <<platformVars, unrolling, routing, placer, transpiling, result, updating, posting, lifecycle, splitting, zurich>>

\* LocalOscillator.disconnect
disconnect_oscillator ==
    /\ oscillator.pc = "ready"
    /\ oscillator' = [oscillator EXCEPT !.is_connected = FALSE, !.op = "disconnect",
                                          !.err = "", !.written = {}]
    /\ UNCHANGED <<platformVars, unrolling, routing, placer, transpiling, result, updating, posting, lifecycle, splitting, zurich>>

NextOscillator ==
    \/ set_parameter
    \/ connect_oscillator
    \/ disconnect_oscillator

SpecOscillator == InitOscillator /\ [][NextOscillator]_vars

-----------------------------------------------------------------------------
(* Platform.update and Platform.reload_settings of platform.py *)

\* bound: number of entries of the updates dictionaries over all the calls
MaxUpdates == 2

\* int(value * 1e9) of a value in GHz
GHz == 1000000000

\* the qubits of the runcard
RuncardQubits == {0, 1}

\* the values of the updates, before their conversion
UpdateValues == {1, 2}

\* the keys of settings["characterization"]["single_qubit"][q]
CharacterizationKeys ==
    {"readout_frequency", "bare_resonator_frequency", "sweetspot", "drive_frequency",
     "T1", "T2", "T2_spin_echo", "threshold", "iq_angle", "mean_gnd_states",
     "mean_exc_states"}

\* the attributes of a Qubit: its fields and the attribute update adds to it
QubitAttributes == CharacterizationKeys \cup {"thresold"}

\* the parameters of update that reach the characterization, one that does
\* not (drive_length) and one that update does not know
UpdateParameters ==
    {"readout_frequency", "bare_resonator_frequency", "sweetspot", "drive_frequency",
     "t1", "t2", "t2_spin_echo", "threshold", "iq_angle", "mean_gnd_states",
     "mean_exc_states", "drive_length", "unknown"}

\* the characterization of the runcard file
Runcard ==
    [q \in RuncardQubits |->
        [k \in CharacterizationKeys |->
            IF k \in {"mean_gnd_states", "mean_exc_states"} THEN <<"str", 0>>
            ELSE IF k \in {"readout_frequency", "bare_resonator_frequency", "drive_frequency"}
                 THEN <<"int", 0>>
                 ELSE <<"float", 0>>]]

\* Qubit(q, **settings["characterization"]["single_qubit"][q])
Qubit(characterization) ==
    [a \in QubitAttributes |->
        IF a \in CharacterizationKeys THEN characterization[a] ELSE <<"unset", 0>>]

\* Platform.__init__: the settings are read from the runcard and
\* reload_settings creates the Qubit records
PlatformCreated ==
    [NoUpdate EXCEPT
        !.pc = "idle", !.settings = Runcard,
        !.qubits = [q \in RuncardQubits |-> Qubit(Runcard[q])],
        !.last = [q \in RuncardQubits |-> [p \in UpdateParameters |-> <<>>]]]

InitUpdate ==
    /\ PlatformUnused
    /\ unrolling = NoUnrolling
    /\ routing = NoRouting
    /\ placer = NoPlacer
    /\ transpiling = NoTranspile
    /\ result = NoResult
    /\ oscillator = NoOscillator
    /\ posting = NoPost
    /\ lifecycle = NoLifecycle
    /\ splitting = NoSplit
    /\ zurich = NoZurich
    /\ updating = PlatformCreated

\* reload_settings reading the runcard file again
reload_settings_runcard(platform) ==
    [platform EXCEPT
        !.settings = Runcard,
        !.qubits = [q \in RuncardQubits |->
                       [a \in QubitAttributes |->
                           IF a \in CharacterizationKeys THEN Runcard[q][a] ELSE @[q][a]]]]

\* Platform.reload_settings once self.settings is loaded: every item of the
\* characterization of a known qubit is set on its Qubit
reload_settings(platform) ==
    [platform EXCEPT
        !.qubits = [q \in RuncardQubits |->
                       [a \in QubitAttributes |->
                           IF a \in CharacterizationKeys THEN platform.settings[q][a]
                           ELSE @[q][a]]]]

\* the attribute of the Qubit and the key of the settings a parameter is
\* written to, and its converted value
Written(par, value) ==
    CASE par \in {"readout_frequency", "bare_resonator_frequency", "drive_frequency"} ->
            [attribute |-> par, key |-> par, value |-> <<"int", value * GHz>>]
      [] par \in {"sweetspot", "iq_angle"} ->
            [attribute |-> par, key |-> par, value |-> <<"float", value>>]
      [] par = "t1" -> [attribute |-> "T1", key |-> "T1", value |-> <<"float", value>>]
      [] par = "t2" -> [attribute |-> "T2", key |-> "T2", value |-> <<"float", value>>]
      [] par = "t2_spin_echo" ->
            [attribute |-> "T2_spin_echo", key |-> "T2_spin_echo", value |-> <<"float", value>>]
      [] par = "threshold" ->
            [attribute |-> "thresold", key |-> "threshold", value |-> <<"float", value>>]
      [] par \in {"mean_gnd_states", "mean_exc_states"} ->
            [attribute |-> par, key |-> par, value |-> <<"str", value>>]

\* Platform.update is called
update ==
    /\ updating.pc = "idle"
    /\ updating.n < MaxUpdates
    /\ updating' = [updating EXCEPT !.pc = "loop", !.err = "", !.seen = {}]
    /\ UNCHANGED <<platformVars, unrolling, routing, placer, transpiling, result, oscillator, posting, lifecycle, splitting, zurich>>

\* one round of the loops of update over the parameters and their qubits
update_item ==
    /\ updating.pc = "loop"
    /\ updating.n < MaxUpdates
    /\ \E par \in UpdateParameters : \E qubit \in RuncardQubits : \E value \in UpdateValues :
          /\ <<par, qubit>> \notin updating.seen
          /\ updating' =
                IF par = "unknown"
                THEN [updating EXCEPT !.pc = "idle", !.err = "ValueError",
                                      !.n = @ + 1, !.unsupported = TRUE]
                ELSE IF par = "drive_length"
                THEN [updating EXCEPT !.n = @ + 1, !.seen = @ \cup {<<par, qubit>>},
                                      !.last[qubit][par] = <<value>>]
                ELSE [updating EXCEPT
                         !.n = @ + 1, !.seen = @ \cup {<<par, qubit>>},
                         !.last[qubit][par] = <<value>>,
                         !.qubits[qubit][Written(par, value).attribute] = Written(par, value).value,
                         !.settings[qubit][Written(par, value).key] = Written(par, value).value]
    /\ UNCHANGED <<platformVars, unrolling, routing, placer, transpiling, result, oscillator, posting, lifecycle, splitting, zurich>>

\* the end of update: reload_settings
update_return ==
    /\ updating.pc = "loop"
    /\ updating' = [reload_settings(updating) EXCEPT !.pc = "idle"]
    /\ UNCHANGED <<platformVars, unrolling, routing, placer, transpiling, result, oscillator, posting, lifecycle, splitting, zurich>>

NextUpdate ==
    \/ update
    \/ update_item
    \/ update_return

SpecUpdate == InitUpdate /\ [][NextUpdate]_vars

-----------------------------------------------------------------------------
(* ERASynthEthernet.post of instruments/erasynth.py *)

\* ERASynthEthernet.MAX_RECONNECTION_ATTEMPTS
MAX_RECONNECTION_ATTEMPTS == 10

\* what requests.post does: a response with status 200 or with another
\* status, or an exception.  requests reports a read timeout with
\* requests.exceptions.ReadTimeout and an unreachable host with
\* requests.exceptions.ConnectionError, which derives from RequestException
\* and not from the builtin ConnectionError
RequestOutcomes ==
    {"200", "404", "ReadTimeout", "builtins.ConnectionError", "builtins.TimeoutError",
     "requests.ConnectionError"}

\* except (ConnectionError, TimeoutError, requests.exceptions.ReadTimeout),
\* the first two names being builtins of Python
Caught == {"builtins.ConnectionError", "builtins.TimeoutError", "ReadTimeout"}

\* the names posted by the driver
PostNames == {"rfoutput", "frequency"}

InitPost ==
    /\ PlatformUnused
    /\ unrolling = NoUnrolling
    /\ routing = NoRouting
    /\ placer = NoPlacer
    /\ transpiling = NoTranspile
    /\ result = NoResult
    /\ oscillator = NoOscillator
    /\ updating = NoUpdate
    /\ lifecycle = NoLifecycle
    /\ splitting = NoSplit
    /\ zurich = NoZurich
    /\ \E name \in PostNames : \E value \in {1} :
          posting = [NoPost EXCEPT !.pc = "loop", !.name = name, !.value = value]

\* one round of the loop of post: a request and what follows from it
post_attempt ==
    /\ posting.pc = "loop"
    /\ Len(posting.requests) < MAX_RECONNECTION_ATTEMPTS
    /\ \E outcome \in RequestOutcomes :
          posting' =
             IF outcome = "200"
             THEN [posting EXCEPT !.requests = Append(@, outcome),
                                  !.pc = "returned", !.returns = "True"]
             ELSE IF outcome = "404"
             THEN \* break, and the raise after the loop
                  [posting EXCEPT !.requests = Append(@, outcome),
                                  !.pc = "raised", !.raises = "builtins.ConnectionError"]
             ELSE IF outcome \in Caught
             THEN [posting EXCEPT !.requests = Append(@, outcome)]
             ELSE \* no except clause matches: the exception leaves post
                  [posting EXCEPT !.requests = Append(@, outcome),
                                  !.pc = "raised", !.raises = outcome]
    /\ UNCHANGED <<platformVars, unrolling, routing, placer, transpiling, result, oscillator, updating, lifecycle, splitting, zurich>>

\* the loop of post has run MAX_RECONNECTION_ATTEMPTS times
post_raise ==
    /\ posting.pc = "loop"
    /\ Len(posting.requests) = MAX_RECONNECTION_ATTEMPTS
    /\ posting' = [posting EXCEPT !.pc = "raised", !.raises = "builtins.ConnectionError"]
    /\ UNCHANGED <<platformVars, unrolling, routing, placer, transpiling, result, oscillator, updating, lifecycle, splitting, zurich>>

NextPost ==
    \/ post_attempt
    \/ post_raise

SpecPost == InitPost /\ [][NextPost]_vars

-----------------------------------------------------------------------------
(* The connection of a MultiqubitPlatform: connect, setup, start, stop,    *)
(* disconnect, the entry of execute_pulse_sequence and the termination     *)
(* handler, with the connection state of every instrument.  An instrument  *)
(* connects as LocalOscillator.connect and ERA.connect do.                 *)

\* the instruments of the platform, in the order of self.instruments
InstrumentNames == 1..NumInstruments

\* the call of a method on every instrument, in order
Calls(method) == [k \in InstrumentNames |-> <<k, method>>]

\* LocalOscillator.connect and ERA.connect: RuntimeError when there is an
\* open connection, an exception when the device cannot be reached
instrument_connect_fails(_is_connected, reachable) == _is_connected \/ ~reachable

\* the loop of MultiqubitPlatform.connect from instrument k on; any
\* exception of an instrument becomes the RuntimeError of the platform
RECURSIVE connect_instruments(_, _)
connect_instruments(platform, k) ==
    IF k > NumInstruments
    THEN [platform EXCEPT !.is_connected = TRUE, !.open = TRUE]
    ELSE IF instrument_connect_fails(platform.connected[k], platform.reachable[k])
         THEN [platform EXCEPT !.calls = Append(@, <<k, "connect">>),
                               !.err = "RuntimeError"]
         ELSE connect_instruments(
                 [platform EXCEPT !.calls = Append(@, <<k, "connect">>),
                                  !.connected[k] = TRUE], k + 1)

InitLifecycle ==
    /\ PlatformUnused
    /\ unrolling = NoUnrolling
    /\ routing = NoRouting
    /\ placer = NoPlacer
    /\ transpiling = NoTranspile
    /\ result = NoResult
    /\ oscillator = NoOscillator
    /\ updating = NoUpdate
    /\ posting = NoPost
    /\ splitting = NoSplit
    /\ zurich = NoZurich
    /\ \E registered \in BOOLEAN :
          \* __init__ does not install the termination handler: the call of
          \* signal.signal is commented out; a caller may install it
          lifecycle = [NoLifecycle EXCEPT
             !.pc = "running", !.registered = registered,
             !.connected = [k \in InstrumentNames |-> FALSE],
             !.reachable = [k \in InstrumentNames |-> TRUE]]

\* the start of a call: what the call before has left is cleared
Called(op) == [lifecycle EXCEPT !.op = op, !.err = "", !.calls = <<>>]

\* MultiqubitPlatform.connect, the instruments being reachable or not
platform_connect ==
    /\ lifecycle.pc = "running"
    /\ \E reachable \in [InstrumentNames -> BOOLEAN] :
          lifecycle' =
             IF ~lifecycle.is_connected
             THEN connect_instruments(
                     [Called("connect") EXCEPT !.reachable = reachable, !.tried = TRUE], 1)
             ELSE [Called("connect") EXCEPT !.reachable = reachable, !.tried = FALSE]
    /\ UNCHANGED <<platformVars, unrolling, routing, placer, transpiling, result, oscillator, updating, posting, splitting, zurich>>

\* the guard of setup and of execute_pulse_sequence left out
checked_call_unguarded(op, method) ==
    [Called(op) EXCEPT !.calls = Calls(method)]

\* setup and execute_pulse_sequence: RuntimeError if not self.is_connected,
\* before any instrument is used
checked_call(op, method) ==
    IF ~lifecycle.is_connected
    THEN [Called(op) EXCEPT !.err = "RuntimeError"]
    ELSE [Called(op) EXCEPT !.calls = Calls(method)]

\* MultiqubitPlatform.setup
platform_setup ==
    /\ lifecycle.pc = "running"
    /\ lifecycle' = checked_call("setup", "setup")
    /\ UNCHANGED <<platformVars, unrolling, routing, placer, transpiling, result, oscillator, updating, posting, splitting, zurich>>

\* MultiqubitPlatform.execute_pulse_sequence: its check of the connection,
\* the rest of it being the upload to the instruments and what follows
platform_execute ==
    /\ lifecycle.pc = "running"
    /\ lifecycle' = checked_call("execute_pulse_sequence", "upload")
    /\ UNCHANGED <<platformVars, unrolling, routing, placer, transpiling, result, oscillator, updating, posting, splitting, zurich>>

\* start and stop: the method of every instrument if self.is_connected
guarded_call(op) ==
    IF lifecycle.is_connected
    THEN [Called(op) EXCEPT !.calls = Calls(op)]
    ELSE Called(op)

\* MultiqubitPlatform.start
platform_start ==
    /\ lifecycle.pc = "running"
    /\ lifecycle' = guarded_call("start")
    /\ UNCHANGED <<platformVars, unrolling, routing, placer, transpiling, result, oscillator, updating, posting, splitting, zurich>>

\* MultiqubitPlatform.stop
platform_stop ==
    /\ lifecycle.pc = "running"
    /\ lifecycle' = guarded_call("stop")
    /\ UNCHANGED <<platformVars, unrolling, routing, placer, transpiling, result, oscillator, updating, posting, splitting, zurich>>

\* MultiqubitPlatform.disconnect; the disconnect of an instrument closes
\* its connection if it has one
platform_disconnect ==
    /\ lifecycle.pc = "running"
    /\ lifecycle' =
          IF lifecycle.is_connected
          THEN [Called("disconnect") EXCEPT
                   !.calls = Calls("disconnect"),
                   !.connected = [k \in InstrumentNames |-> FALSE],
                   !.is_connected = FALSE, !.open = FALSE]
          ELSE [Called("disconnect") EXCEPT !.open = FALSE]
    /\ UNCHANGED <<platformVars, unrolling, routing, placer, transpiling, result, oscillator, updating, posting, splitting, zurich>>

\* MultiqubitPlatform._termination_handler, which ends with exit(0)
_termination_handler ==
    [guarded_call("stop") EXCEPT !.op = "_termination_handler", !.pc = "exited"]

\* the process receives SIGTERM: the handler runs if it is installed, and
\* the process ends at once if it is not
SIGTERM ==
    /\ lifecycle.pc = "running"
    /\ lifecycle' =
          IF lifecycle.registered
          THEN _termination_handler
          ELSE [Called("SIGTERM") EXCEPT !.pc = "exited"]
    /\ UNCHANGED <<platformVars, unrolling, routing, placer, transpiling, result, oscillator, updating, posting, splitting, zurich>>

NextLifecycle ==
    \/ platform_connect
    \/ platform_setup
    \/ platform_execute
    \/ platform_start
    \/ platform_stop
    \/ platform_disconnect
    \/ SIGTERM

SpecLifecycle == InitLifecycle /\ [][NextLifecycle]_vars

-----------------------------------------------------------------------------
(* Zurich.create_sub_sequences of instruments/zhinst.py: the pulses of the  *)
(* control channels are split at the starts of the measurements.            *)

\* the largest time of a pulse
MaxTime == 4

\* measure_channel_name(qb) for the qubits of the platform
measure_channels == {"measure0", "measure1"}

\* the channels of self.sequence that are not measure channels
ControlChannels == {"drive0"}

\* a pulse of a channel: pulse.start and pulse.finish
ZhPulses == {p \in [start : 0..MaxTime, finish : 0..MaxTime] : p.start < p.finish}

\* the pulses of one channel as sequence_zh lists them: in temporal order,
\* one after the other
RECURSIVE ChannelPulses(_)
ChannelPulses(from) ==
    {<<>>} \cup UNION {{<<p>> \o rest : rest \in ChannelPulses(p.finish)} :
                         p \in {x \in ZhPulses : x.start >= from}}

\* self.sequence: the list of pulses of every channel
ZhSequences ==
    {s \in [measure_channels \cup ControlChannels -> ChannelPulses(0)] :
        Len(s["measure1"]) <= Len(s["measure0"])}

\* measurement_groups: the number of groups, and group i (counted from 0)
NumGroups(sequence) ==
    CHOOSE n \in 0..(MaxTime + 1) :
       /\ \A ch \in measure_channels : Len(sequence[ch]) <= n
       /\ n > 0 => \E ch \in measure_channels : Len(sequence[ch]) = n

measurement_groups(sequence, i) ==
    {<<ch, sequence[ch][i + 1]>> : ch \in {c \in measure_channels : Len(sequence[c]) > i}}

\* measurement_starts[i]: the latest start of the measurements of group i
measurement_starts(sequence, i) ==
    CHOOSE t \in 0..MaxTime :
       /\ \E m \in measurement_groups(sequence, i) : m[2].start = t
       /\ \A m \in measurement_groups(sequence, i) : m[2].start <= t

\* the index moves on until the measurement starts no earlier than the pulse
RECURSIVE advance_to_measurement(_, _, _)
advance_to_measurement(sequence, pulse, measurement_index) ==
    IF measurement_index < NumGroups(sequence)
       /\ pulse.finish > measurement_starts(sequence, measurement_index)
    THEN advance_to_measurement(sequence, pulse, measurement_index + 1)
    ELSE measurement_index

\* if pulse.pulse.finish > measurement_starts[measurement_index]:
\*     measurement_index += 1
advance(sequence, pulse, measurement_index) ==
    IF pulse.finish > measurement_starts(sequence, measurement_index)
    THEN measurement_index + 1
    ELSE measurement_index

\* the loop over the pulses of one control channel from pulse k on;
\* measurement_starts[measurement_index] is a KeyError when there is no
\* such measurement
RECURSIVE split_channel(_, _, _, _, _)
split_channel(sequence, ch, k, measurement_index, sub_sequences) ==
    IF k > Len(sequence[ch]) THEN [err |-> "", sub_sequences |-> sub_sequences]
    ELSE IF measurement_index >= NumGroups(sequence)
    THEN [err |-> "KeyError", sub_sequences |-> sub_sequences]
    ELSE LET index == advance(sequence, sequence[ch][k], measurement_index)
         IN split_channel(sequence, ch, k + 1, index,
               sub_sequences \cup {<<index, ch, sequence[ch][k]>>})

InitSplit ==
    /\ PlatformUnused
    /\ unrolling = NoUnrolling
    /\ routing = NoRouting
    /\ placer = NoPlacer
    /\ transpiling = NoTranspile
    /\ result = NoResult
    /\ oscillator = NoOscillator
    /\ updating = NoUpdate
    /\ posting = NoPost
    /\ lifecycle = NoLifecycle
    /\ zurich = NoZurich
    /\ \E sequence \in ZhSequences :
          splitting = [NoSplit EXCEPT !.pc = "called", !.sequence = sequence]

\* Zurich.create_sub_sequences: the SubSequence of every measurement group,
\* as its measurements and the <<index, channel, pulse>> of its control
\* pulses; sub_sequences with an index beyond the groups are not returned
create_sub_sequences ==
    /\ splitting.pc = "called"
    /\ \E split \in {split_channel(splitting.sequence, "drive0", 1, 0, {})} :
          splitting' =
             IF split.err # ""
             THEN [splitting EXCEPT !.pc = "raised", !.err = split.err]
             ELSE [splitting EXCEPT
                     !.pc = "returned",
                     !.measurements =
                        [i \in 1..NumGroups(splitting.sequence) |->
                            measurement_groups(splitting.sequence, i - 1)],
                     !.control_sequence =
                        {c \in split.sub_sequences : c[1] < NumGroups(splitting.sequence)}]
    /\ UNCHANGED <<platformVars, unrolling, routing, placer, transpiling, result, oscillator, updating, posting, lifecycle, zurich>>

NextSplit ==
    create_sub_sequences

SpecSplit == InitSplit /\ [][NextSplit]_vars

-----------------------------------------------------------------------------
(* Zurich.play and Zurich.sweep of instruments/zhinst.py: the fields of the *)
(* driver that a call leaves behind, the experiment it builds and the axes  *)
(* of the arrays it returns.                                                *)

\* the largest number of sweepers of a call
MaxZhSweepers == 3

DrivePulse == [type |-> "DRIVE", channel |-> "drive0", start |-> 0, finish |-> 1]

ReadoutPulse == [type |-> "READOUT", channel |-> "measure0", start |-> 1, finish |-> 2]

\* the sequences given to the driver, in temporal order
ZhPulseSequences == {<<DrivePulse, ReadoutPulse>>, <<DrivePulse>>}

\* the sweepers given to the driver
ZhSweeperCatalogue ==
    { [parameter |-> "frequency", pulses |-> <<DrivePulse>>,   qubits |-> <<>>],
      [parameter |-> "amplitude", pulses |-> <<DrivePulse>>,   qubits |-> <<>>],
      [parameter |-> "duration",  pulses |-> <<DrivePulse>>,   qubits |-> <<>>],
      [parameter |-> "amplitude", pulses |-> <<ReadoutPulse>>, qubits |-> <<>>],
      [parameter |-> "bias",      pulses |-> <<>>,             qubits |-> <<0>>] }

ZhSweeperLists ==
    UNION { {l \in [1..n -> ZhSweeperCatalogue] : \A i, j \in 1..n : l[i] = l[j] => i = j} :
              n \in 0..MaxZhSweepers }

\* ExecutionParameters(averaging_mode, acquisition_type)
ZhOptions ==
    [averaging_mode : {"SINGLESHOT", "CYCLIC"}, acquisition_type : {"INTEGRATION"}]

SWEEPER_SET == {"amplitude", "frequency", "duration", "relative_phase"}

SWEEPER_BIAS == {"bias"}

SWEEPER_START == {"start"}

\* a sweeper of the near-time loop
IsNearTime(sweeper) ==
    IF sweeper.parameter = "amplitude" /\ sweeper.pulses[1].type = "READOUT"
    THEN TRUE
    ELSE sweeper.parameter \in SWEEPER_BIAS

\* classify_sweepers
classify_sweepers(sweepers) ==
    LET IsRealTime(sweeper) == ~IsNearTime(sweeper)
    IN [nt_sweepers |-> SelectSeq(sweepers, IsNearTime),
        rt_sweepers |-> SelectSeq(sweepers, IsRealTime)]

\* Zurich.rearrange_rt_sweepers: the first frequency sweeper is swapped with
\* the first sweeper; the pair is counted from 0
rearrange_rt_sweepers(sweepers) ==
    LET freq == {i \in 1..Len(sweepers) : sweepers[i].parameter = "frequency"}
    IN IF freq = {} THEN [swapped_axis_pair |-> <<0, 0>>, sweepers |-> sweepers]
       ELSE LET idx == CHOOSE i \in freq : \A j \in freq : i <= j
            IN [swapped_axis_pair |-> <<0, idx - 1>>,
                sweepers |-> [[sweepers EXCEPT ![idx] = sweepers[1]] EXCEPT ![1] = sweepers[idx]]]

\* np.moveaxis raises AxisError for an axis the array does not have
moveaxis_fails(axes, source, destination) ==
    source >= Len(axes) \/ destination >= Len(axes)

\* np.moveaxis(axes, source, destination), both counted from 0
moveaxis(axes, source, destination) ==
    LET rest == SubSeq(axes, 1, source) \o SubSeq(axes, source + 2, Len(axes))
    IN SubSeq(rest, 1, destination) \o <<axes[source + 1]>>
          \o SubSeq(rest, destination + 1, Len(rest))

\* the channel of a pulse in the driver
ZhChannel(pulse) == IF pulse.type = "READOUT" THEN "measure0" ELSE pulse.channel

\* ProcessedSweeps(sweepers, qubits): the sweeps of pulses and of channels
ProcessedSweeps(sweepers) ==
    LET n == Len(sweepers)
        OfPulse(sw) == /\ sw.pulses # <<>>
                       /\ sw.parameter # "frequency"
                       /\ IF sw.parameter \in {"duration", "start"} THEN TRUE
                          ELSE ~(sw.pulses[1].type = "READOUT" /\ sw.parameter = "amplitude")
    IN [created |-> TRUE,
        _pulse_sweeps |-> {<<sweepers[i].pulses[1], sweepers[i].parameter>> :
                              i \in {k \in 1..n : OfPulse(sweepers[k])}},
        _channel_sweeps |->
           {<<ZhChannel(sweepers[i].pulses[1]), sweepers[i].parameter>> :
               i \in {k \in 1..n : sweepers[k].pulses # <<>> /\ ~OfPulse(sweepers[k])}}
           \cup {<<"flux0", sweepers[i].parameter>> :
               i \in {k \in 1..n : sweepers[k].qubits # <<>>}}]

\* a ZhPulse with the sweeps sequence_zh adds to it
ZhPulse(z, pulse) ==
    LET params == IF z.processed_sweeps.created
                  THEN {s[2] : s \in {x \in z.processed_sweeps._pulse_sweeps : x[1] = pulse}}
                  ELSE {}
    IN [start |-> pulse.start, finish |-> pulse.finish, type |-> pulse.type,
        zhsweepers |-> params \cap SWEEPER_SET,
        delay_sweeper |-> params \cap SWEEPER_START # {}]

\* Zurich.sequence_zh: the ZhPulse lists of the channels
sequence_zh(z, sequence) ==
    [ch \in measure_channels \cup ControlChannels |->
        LET OnChannel(pulse) == ZhChannel(pulse) = ch
            pulses == SelectSeq(sequence, OnChannel)
        IN [k \in 1..Len(pulses) |-> ZhPulse(z, pulses[k])]]

\* Zurich.create_exp with define_exp, the sweep recursions, select_exp and
\* set_calibration_for_rt_sweep: the experiment, and the driver after it
create_exp(z, options, split) ==
    LET overridden == z.acquisition_type # "None"
        groups == NumGroups(z.sequence)
        exp == [built |-> TRUE,
                acquisition_type |-> IF overridden THEN z.acquisition_type
                                     ELSE options.acquisition_type,
                averaging_mode |-> options.averaging_mode,
                loops |-> [k \in 1..Len(z.nt_sweeps) |-> [uid |-> "sweep", sweeper |-> <<z.nt_sweeps[k]>>]]
                             \o <<[uid |-> "shots", sweeper |-> <<>>]>>
                             \o [k \in 1..Len(z.rt_sweeps) |-> [uid |-> "sweep", sweeper |-> <<z.rt_sweeps[k]>>]],
                measurements |-> [i \in 1..groups |-> measurement_groups(z.sequence, i - 1)],
                control_sequence |-> {c \in split.sub_sequences : c[1] < groups},
                calibration |->
                   IF z.processed_sweeps.created
                   THEN [set |-> TRUE,
                         oscillators |-> {c[1] : c \in {x \in z.processed_sweeps._channel_sweeps :
                                                            x[2] = "frequency"}}]
                   ELSE [set |-> FALSE, oscillators |-> {}]]
    IN [z EXCEPT !.acquisition_type = "None", !.nt_sweeps = <<>>, !.rt_sweeps = <<>>,
                 !.experiment = exp]

\* Zurich.experiment_flow: sequence_zh, create_sub_sequences, create_exp
experiment_flow(z, sequence, options) ==
    LET zs    == [z EXCEPT !.sequence = sequence_zh(z, sequence)]
        split == split_channel(zs.sequence, "drive0", 1, 0, {})
    IN IF split.err # "" THEN [zs EXCEPT !.err = split.err]
       ELSE create_exp(zs, options, split)

\* the name of the axis of a sweeper
AxisOf(sweeper) ==
    sweeper.parameter \o "." \o (IF sweeper.pulses = <<>> THEN "qubit"
                                  ELSE sweeper.pulses[1].type)

\* the axes of the array laboneq returns: the loops from the outermost in,
\* the shots only when they are not averaged
ResultAxes(exp) ==
    LET Kept(loop) == IF loop.uid = "shots" THEN exp.averaging_mode = "SINGLESHOT" ELSE TRUE
        kept == SelectSeq(exp.loops, Kept)
    IN [k \in 1..Len(kept) |->
           IF kept[k].uid = "shots" THEN "shots" ELSE AxisOf(kept[k].sweeper[1])]

InitZurich ==
    /\ PlatformUnused
    /\ unrolling = NoUnrolling
    /\ routing = NoRouting
    /\ placer = NoPlacer
    /\ transpiling = NoTranspile
    /\ result = NoResult
    /\ oscillator = NoOscillator
    /\ updating = NoUpdate
    /\ posting = NoPost
    /\ lifecycle = NoLifecycle
    /\ splitting = NoSplit
    /\ zurich = ZurichCreated

\* the start of a call on the driver; the experiment and the axes are those
\* of the call
ZhCalled(op, sequence, options, sweepers) ==
    [zurich EXCEPT !.op = op, !.err = "", !.axes = <<>>, !.experiment = [built |-> FALSE],
                   !.args = [sequence |-> sequence, options |-> options, sweepers |-> sweepers]]

\* Zurich.play
zurich_play ==
    /\ \E sequence \in ZhPulseSequences : \E options \in ZhOptions :
          \E z \in {experiment_flow(ZhCalled("play", sequence, options, <<>>), sequence, options)} :
             zurich' = IF z.err # "" THEN z
                       ELSE [z EXCEPT !.axes = ResultAxes(z.experiment)]
    /\ UNCHANGED <<platformVars, unrolling, routing, placer, transpiling, result, oscillator, updating, posting, lifecycle, splitting>>

\* Zurich.sweep
zurich_sweep ==
    /\ \E sequence \in ZhPulseSequences : \E options \in ZhOptions :
       \E sweepers \in ZhSweeperLists \ {<<>>} :
          LET classes  == classify_sweepers(sweepers)
              arranged == rearrange_rt_sweepers(classes.rt_sweepers)
              shift    == Len(classes.nt_sweepers)
                             + (IF options.averaging_mode = "SINGLESHOT" THEN 1 ELSE 0)
              spectroscopy ==
                 \E i \in 1..Len(sweepers) :
                    /\ sweepers[i].parameter \in {"frequency", "amplitude"}
                    /\ \E k \in 1..Len(sweepers[i].pulses) : sweepers[i].pulses[k].type = "READOUT"
              started == [ZhCalled("sweep", sequence, options, sweepers) EXCEPT
                             !.processed_sweeps = ProcessedSweeps(sweepers),
                             !.nt_sweeps = classes.nt_sweepers,
                             !.rt_sweeps = arranged.sweepers,
                             !.acquisition_type = IF spectroscopy THEN "SPECTROSCOPY" ELSE @]
          IN \E z \in {experiment_flow(started, sequence, options)} :
                zurich' = IF z.err # "" THEN z
                          ELSE IF moveaxis_fails(ResultAxes(z.experiment),
                                                 arranged.swapped_axis_pair[1] + shift,
                                                 arranged.swapped_axis_pair[2] + shift)
                          THEN [z EXCEPT !.err = "AxisError"]
                          ELSE [z EXCEPT !.axes =
                                   moveaxis(ResultAxes(z.experiment),
                                            arranged.swapped_axis_pair[1] + shift,
                                            arranged.swapped_axis_pair[2] + shift)]
    /\ UNCHANGED <<platformVars, unrolling, routing, placer, transpiling, result, oscillator, updating, posting, lifecycle, splitting>>

NextZurich ==
    \/ zurich_play
    \/ zurich_sweep

SpecZurich == InitZurich /\ [][NextZurich]_vars

-----------------------------------------------------------------------------
(* Vocabulary of the properties *)

\* the sweeper list that sweep hands to the first level of the recursion
FirstLevel == sweepers_copy(call.sweepers, call.sequence)

\* the sweep call has returned or raised
Finished == status \in {"done", "error"} /\ call.sweepers # <<>>

\* errors of the execution itself: platform not connected, LO conflict on a
\* port, readout pulse that no readout instrument acquires
ExecutionError == err \in {"RuntimeError", "ValueError", "KeyError"}

ControlOrReadout ==
    {i \in 1..Len(instruments) : IsControlOrReadout(instruments[i])}

\* the first level is a real-time level that executes without a phase split
PlainRealTime ==
    /\ FirstLevel # <<>>
    /\ AllRealTime(FirstLevel)
    /\ ~(FirstLevel[1].parameter = "relative_phase" /\ HasDecrease(FirstLevel[1].values))

FirstLevelShots == SweepShots(call.options)

FirstLevelBins == CappedMul(FirstLevelShots, LenProduct(FirstLevel, 1))

RECURSIVE SumShots(_, _)
SumShots(es, k) == IF k > Len(es) THEN 0 ELSE es[k].nshots + SumShots(es, k + 1)

CeilDiv(a, b) == (a + b - 1) \div b

-----------------------------------------------------------------------------
(* Properties *)

\* C1: within one execute_pulse_sequence, play_sequence is called on an
\* instrument only once every control or readout instrument has been
\* processed and uploaded, and acquire is called only once play_sequence has
\* been called on every control or readout instrument.
C1_UploadPlayAcquireBarrier ==
    /\ eps.played # {} =>
          ControlOrReadout \subseteq (eps.processed \cap eps.uploaded)
    /\ eps.acquired # {} => ControlOrReadout \subseteq eps.played

\* an execution on two control or readout instruments has reached an acquire
C1_Witness ==
    /\ eps.acquired # {}
    /\ Cardinality(ControlOrReadout) >= 2
    /\ eps.played = ControlOrReadout

\* C2: every real-time execution issued by _sweep_recursion has
\* nshots x product of len(sweeper.values) strictly below 2**17.
C2_RealTimeBinsBelowLimit ==
    \A k \in 1..Len(execs) :
        execs[k].rt =>
            CappedMul(execs[k].nshots, LenProduct(execs[k].sweepers, 1)) < BinLimit

\* a single-shot real-time execution of two sweepers with 10000 x 3 x 3 bins
C2_Witness ==
    /\ execs # <<>>
    /\ execs[1].rt
    /\ Len(execs[1].sweepers) = 2
    /\ execs[1].nshots = 10000
    /\ CappedMul(execs[1].nshots, LenProduct(execs[1].sweepers, 1)) = 90000

\* C3: a sweep whose bins reach 2**17 while the product of the sweeper
\* lengths stays below it ends having executed ceil(nshots / max_rt_nshots)
\* chunks of at most max_rt_nshots shots each, all but the last of exactly
\* max_rt_nshots, that sum to nshots.
C3_ShotChunksSumToNshots ==
    (Finished /\ ~ExecutionError /\ PlainRealTime
       /\ ~FitsMemory(FirstLevelBins)
       /\ LenProduct(FirstLevel, 1) < BinLimit)
    => LET max_rt_nshots == BinLimit \div LenProduct(FirstLevel, 1)
           chunks        == CeilDiv(FirstLevelShots, max_rt_nshots)
       IN /\ Len(execs) = chunks
          /\ \A k \in 1..Len(execs) :
                /\ execs[k].rt
                /\ execs[k].nshots <= max_rt_nshots
                /\ k < chunks => execs[k].nshots = max_rt_nshots
          /\ SumShots(execs, 1) = FirstLevelShots

\* shots of a frame, and the number of values of its sweepers
FrameShots(f) == SweepShots(f.options)

RECURSIVE FrameValues(_, _)
FrameValues(f, k) ==
    IF k > Len(f.sweepers) THEN 0
    ELSE ValuesLen(f.sweepers[k].values) + FrameValues(f, k + 1)

\* C4: every recursive call of _sweep_recursion works on a strictly smaller
\* upload than its caller: fewer shots, or fewer sweeper values.
C4_RecursiveCallsShrink ==
    \A k \in 2..Len(stack) :
        \/ FrameShots(stack[k]) < FrameShots(stack[k - 1])
        \/ FrameValues(stack[k], 1) < FrameValues(stack[k - 1], 1)

\* C5: a sweep whose product of sweeper lengths reaches 2**17 ends having
\* executed, once per shot, the consecutive chunks of at most
\* max_rt_iterations values of the outermost sweeper, each with the
\* remaining sweepers unchanged.
C5_ValueChunksCoverSweeper ==
    (Finished /\ ~ExecutionError /\ PlainRealTime
       /\ LenProduct(FirstLevel, 1) >= BinLimit
       /\ LenProduct(FirstLevel, 2) <= BinLimit)
    => LET max_rt_iterations == BinLimit \div LenProduct(FirstLevel, 2)
           chunks == CeilDiv(ValuesLen(FirstLevel[1].values), max_rt_iterations)
       IN /\ Len(execs) = FirstLevelShots * chunks
          /\ \A k \in 1..Len(execs) :
                LET c == (k - 1) % chunks
                IN /\ execs[k].rt
                   /\ execs[k].sweepers[1].values =
                         Slice(FirstLevel[1].values, c * max_rt_iterations,
                               (c + 1) * max_rt_iterations)
                   /\ ValuesLen(execs[k].sweepers[1].values) > 0
                   /\ Tail(execs[k].sweepers) = Tail(FirstLevel)

\* C6: a sweep whose outermost sweeper is a relative_phase sweeper whose
\* phase codes decrease at d positions ends having executed exactly d + 1
\* sub-sweeps, the k-th on the k-th contiguous slice between two decreases,
\* each with the remaining sweepers unchanged.
C6_PhaseWrapSplitsInSlices ==
    (Finished /\ ~ExecutionError
       /\ FirstLevel # <<>>
       /\ AllRealTime(FirstLevel)
       /\ FirstLevel[1].parameter = "relative_phase"
       /\ HasDecrease(FirstLevel[1].values)
       /\ FitsMemory(FirstLevelBins))
    => LET cuts == CutIndices(FirstLevel[1].values, 0)
       IN /\ Len(execs) = Len(cuts)
          /\ \A k \in 1..Len(execs) :
                /\ execs[k].sweepers[1].values =
                      Slice(FirstLevel[1].values,
                            IF k = 1 THEN 0 ELSE cuts[k - 1] + 1, cuts[k] + 1)
                /\ ~HasDecrease(execs[k].sweepers[1].values)
                /\ Tail(execs[k].sweepers) = Tail(FirstLevel)

\* the sum of the results of the executions 1..n, None for n = 0
FoldAll(n) == [none |-> n = 0, sum |-> [k \in 1..n |-> k]]

\* C7: when a sweep ends, every entry of its results map is the sum of the
\* results of all the executions it issued (None when it issued none),
\* whether they were issued by the for-loop branch or the real-time branch.
C7_ResultsAreSumOfExecutions ==
    (Finished /\ ~ExecutionError)
    => \A p \in DOMAIN results.id : results.id[p] = FoldAll(Len(execs))

\* a real-time sweeper first and a for-loop sweeper somewhere after it
Mixed(sweepers) ==
    /\ Len(sweepers) >= 2
    /\ sweepers[1].parameter \in rt_sweepers
    /\ \E k \in 2..Len(sweepers) : sweepers[k].parameter \in for_loop_sweepers

\* C8: a sweep whose list holds a for-loop sweeper after a real-time sweeper
\* at a real-time level never returns normally and issues no execution: it
\* is in the first pass of its first level until it raises.
C8_NestedForLoopFailsBeforeExecution ==
    (status # "idle" /\ Mixed(FirstLevel))
    => /\ status # "done"
       /\ execs = <<>>
       /\ eps = NoEps
       /\ status = "sweep" =>
             /\ Len(stack) = 1
             /\ Top.pc \in {"enter", "rt", "phasesplit"}
             /\ Top.i <= 1

\* such a sweep has raised the configuration error
C8_Witness ==
    /\ status = "error"
    /\ err = "Exception"
    /\ Mixed(FirstLevel)
    /\ gain # [q \in Qubits |-> RuncardGain]

\* C9: when a real-time execution is issued, the external gain of the qubit
\* of every pulse of every gain sweeper it carries is 1, and the amplitude of
\* every pulse of every amplitude sweeper it carries is 1.
C9_GainAndAmplitudeStaged ==
    \A k \in 1..Len(execs) :
        execs[k].rt =>
            \A j \in 1..Len(execs[k].sweepers) :
                LET s == execs[k].sweepers[j]
                IN /\ s.parameter = "gain" =>
                        \A p \in s.pulses : execs[k].gain[PulseInfo(p).qubit] = 1
                   /\ s.parameter = "amplitude" =>
                        \A p \in s.pulses : execs[k].amplitude[p] = 1

\* C10: a sweep over one attenuation sweeper of N values ends having issued
\* exactly N executions, the k-th with the attenuation of every swept qubit
\* at the k-th value.
C10_OneExecutionPerAttenuation ==
    (Finished /\ ~ExecutionError
       /\ Len(call.sweepers) = 1
       /\ call.sweepers[1].parameter = "attenuation")
    => LET sweeper == call.sweepers[1]
       IN /\ Len(execs) = ValuesLen(sweeper.values)
          /\ \A k \in 1..Len(execs) :
                \A q \in sweeper.qubits :
                    execs[k].attenuation[q] = ValueAt(sweeper.values, k)

-----------------------------------------------------------------------------
(* Properties of instruments/unrolling.py *)

\* the batches k.. of a list of batches, concatenated
RECURSIVE Flatten(_, _)
Flatten(batches, k) ==
    IF k > Len(batches) THEN <<>> ELSE batches[k] \o Flatten(batches, k + 1)

\* the total of the measures of the sequences k.. of a batch
RECURSIVE Total(_, _, _)
Total(fn, batch, k) ==
    IF k > Len(batch) THEN 0 ELSE Measure(fn, batch[k]) + Total(fn, batch, k + 1)

UnrollingDone == unrolling.pc = "done"

\* a sequence that alone exceeds the bound
Oversized(fn, sequence, max) == Measure(fn, sequence) > max

C12_BatchesRespectBound ==
    \A k \in 1..Len(unrolling.out) :
        LET b == unrolling.out[k]
        IN IF unrolling.fn = "batch_max_sequences"
           THEN Len(b) <= unrolling.max
           ELSE \/ Total(unrolling.fn, b, 1) <= unrolling.max
                \/ Len(b) = 1 /\ Oversized(unrolling.fn, b[1], unrolling.max)

\* batch_max_readout has yielded a batch of two sequences that fills the
\* bound and a batch of one oversized sequence
C12_Witness ==
    /\ UnrollingDone
    /\ unrolling.fn = "batch_max_readout"
    /\ \E k \in 1..Len(unrolling.out) :
          /\ Len(unrolling.out[k]) = 2
          /\ Total(unrolling.fn, unrolling.out[k], 1) = unrolling.max
    /\ \E k \in 1..Len(unrolling.out) :
          /\ Len(unrolling.out[k]) = 1
          /\ Oversized(unrolling.fn, unrolling.out[k][1], unrolling.max)

\* C13: in batch_max_duration and batch_max_readout a sequence that alone
\* exceeds the bound is a batch of exactly one sequence, and no batch
\* yielded for a non-empty input is empty.
C13_OversizedAloneAndNoEmptyBatch ==
    unrolling.fn \in {"batch_max_duration", "batch_max_readout"}
    => \A k \in 1..Len(unrolling.out) :
          LET b == unrolling.out[k]
          IN /\ (\E j \in 1..Len(b) : Oversized(unrolling.fn, b[j], unrolling.max))
                   => Len(b) = 1
             /\ unrolling.sequences # <<>> => b # <<>>

\* C30: batch_max_duration and batch_max_readout start a new batch only
\* when the next sequence does not fit in the running one: the total of a
\* batch plus the measure of the first sequence of the batch after it is
\* strictly greater than the bound.
C30_GreedyBatches ==
    unrolling.fn \in {"batch_max_duration", "batch_max_readout"}
    => \A k \in 1..(Len(unrolling.out) - 1) :
          /\ unrolling.out[k + 1] # <<>>
          /\ Total(unrolling.fn, unrolling.out[k], 1)
                + Measure(unrolling.fn, unrolling.out[k + 1][1]) > unrolling.max

\* batch_max_duration has packed two sequences in a first batch that they
\* fill short of the bound, and the third in a second batch
C30_Witness ==
    /\ UnrollingDone
    /\ unrolling.fn = "batch_max_duration"
    /\ Len(unrolling.out) = 2
    /\ Len(unrolling.out[1]) = 2
    /\ Total(unrolling.fn, unrolling.out[1], 1) < unrolling.max
    /\ Len(unrolling.out[2]) = 1

-----------------------------------------------------------------------------
(* Properties of transpilers/routing.py *)

\* routing.respect_connectivity(connectivity, circuit): no gate on more than
\* two qubits and every two-qubit gate on an edge of the connectivity
respect_connectivity(connectivity, circuit) ==
    \A k \in 1..Len(circuit) :
        /\ Len(circuit[k].qubits) <= 2
        /\ Len(circuit[k].qubits) = 2
              => {circuit[k].qubits[1], circuit[k].qubits[2]} \in connectivity

RoutingDone == routing.pc = "done"

\* C14: the circuit returned by ShortestPaths has only one-qubit gates and
\* two-qubit gates, the added SWAP gates included, that act on an edge of
\* the connectivity: respect_connectivity is true of it.
C14_OutputRespectsConnectivity ==
    RoutingDone => respect_connectivity(routing.connectivity, routing.hardware_mapped_circuit)

\* a circuit with a gate off the connectivity has been routed with two SWAP
\* gates or more from a layout that is not the trivial one
C14_Witness ==
    /\ RoutingDone
    /\ routing.added_swaps >= 2
    /\ routing.initial_layout # Dict(<<0, 1, 2, 3>>)
    /\ \E k \in 1..Len(routing.hardware_mapped_circuit) :
          routing.hardware_mapped_circuit[k].name = "SWAP"
    /\ ~respect_connectivity(routing.connectivity, routing.circuit.queue)

\* C15: every transpiler_step leaves strictly fewer two-qubit gates in the
\* reduced representation and no step fails, and the routing loop returns
\* exactly when the representation is empty: ShortestPaths ends after at
\* most as many steps as the representation has gates.
C15_StepsReduceAndTerminate ==
    [][routing.pc = "loop" =>
          IF routing._circuit_repr = <<>>
          THEN routing'.pc = "done"
          ELSE /\ routing'.pc = "loop"
               /\ Len(routing'._circuit_repr) < Len(routing._circuit_repr)]_routing

\* the loop is between two steps: a step has added SWAP gates and gates of
\* the representation are left
C15_Witness ==
    /\ routing.pc = "loop"
    /\ routing.added_swaps > 0
    /\ routing._circuit_repr # <<>>

\* the number of SWAP gates of the circuit
RECURSIVE CountSwaps(_, _)
CountSwaps(circuit, k) ==
    IF k > Len(circuit) THEN 0
    ELSE (IF circuit[k].name = "SWAP" THEN 1 ELSE 0) + CountSwaps(circuit, k + 1)

\* C29: added_swaps is the number of SWAP gates that ShortestPaths has put
\* in the circuit, in the routing loop and in the circuit returned, whatever
\* an earlier call has left in the counter; every step adds len(path) - 2
\* to the counter and as many SWAP gates to the circuit.
C29_AddedSwapsCountsSwaps ==
    /\ routing.pc = "loop" =>
          routing.added_swaps = CountSwaps(routing._transpiled_circuit, 1)
    /\ RoutingDone =>
          routing.added_swaps = CountSwaps(routing.hardware_mapped_circuit, 1)

\* a circuit with a one-qubit gate has been routed with three SWAP gates
\* or more
C29_Witness ==
    /\ RoutingDone
    /\ routing.added_swaps >= 3
    /\ routing.added_swaps = CountSwaps(routing.hardware_mapped_circuit, 1)
    /\ \E k \in 1..Len(routing.circuit.queue) : routing.circuit.queue[k].name = "H"

\* the physical qubit of every logical qubit after the first k gates of the
\* routed circuit: a SWAP exchanges the logical qubits of its two qubits
RECURSIVE Occupies(_, _, _)
Occupies(circuit, k, start) ==
    IF k = 0 THEN start
    ELSE LET before == Occupies(circuit, k - 1, start)
         IN IF circuit[k].name = "SWAP"
            THEN [l \in DOMAIN before |->
                     IF before[l] = circuit[k].qubits[1] THEN circuit[k].qubits[2]
                     ELSE IF before[l] = circuit[k].qubits[2] THEN circuit[k].qubits[1]
                     ELSE before[l]]
            ELSE before

\* the physical qubit that the initial layout gives to every logical qubit
InitialPlaces ==
    [l \in Nodes |->
        CHOOSE i \in Nodes : LayoutValues(routing.initial_layout)[i] = l]

\* the gates of the routed circuit that are no SWAP, as positions of it
RoutedGates ==
    {k \in 1..Len(routing.hardware_mapped_circuit) :
        routing.hardware_mapped_circuit[k].name # "SWAP"}

\* C36: the circuit returned by ShortestPaths holds every gate of the input
\* circuit exactly once, in the order of the input, each on the physical
\* qubits that its logical qubits occupy after the SWAP gates before it, and
\* holds nothing else but SWAP gates
C36_RoutedCircuitKeepsGates ==
    RoutingDone =>
       LET out == routing.hardware_mapped_circuit
           queue == routing.circuit.queue
       IN /\ Cardinality(RoutedGates) = Len(queue)
          /\ \A k \in RoutedGates :
                LET g == Cardinality({j \in RoutedGates : j <= k})
                IN /\ out[k].name = queue[g].name
                   /\ out[k].qubits =
                         [j \in 1..Len(queue[g].qubits) |->
                             Occupies(out, k - 1, InitialPlaces)[queue[g].qubits[j]]]

\* a one-qubit gate that follows the last two-qubit gate has been put on
\* another physical qubit than its logical one, after a SWAP gate
C36_Witness ==
    /\ RoutingDone
    /\ Len(routing.circuit.queue) = MaxGates
    /\ routing.circuit.queue[MaxGates].name = "H"
    /\ routing.circuit.queue[1].name = "H"
    /\ Len(routing.circuit.queue[2].qubits) = 2
    /\ routing.added_swaps > 0
    /\ routing.hardware_mapped_circuit[Len(routing.hardware_mapped_circuit)].name = "H"
    /\ routing.hardware_mapped_circuit[Len(routing.hardware_mapped_circuit)].qubits
          # <<InitialPlaces[3]>>

\* the values of the map are its keys, each once
IsPermutation(map) ==
    \A v \in DOMAIN map : Cardinality({x \in DOMAIN map : map[x] = v}) = 1

\* C37: the qubit map of ShortestPaths is a permutation of 0..n-1 after the
\* initial sort and after every update_qubit_map, and the final_mapping
\* returned has one entry for every node of the connectivity, its values
\* being a permutation of 0..n-1
C37_QubitMapIsPermutation ==
    /\ routing.pc \in {"loop", "done"} =>
          DOMAIN routing._qubit_map = Nodes /\ IsPermutation(routing._qubit_map)
    /\ RoutingDone =>
          DOMAIN routing.final_mapping = Nodes /\ IsPermutation(routing.final_mapping)

\* a routing of two steps or more has returned a final mapping that is not
\* the initial layout
C37_Witness ==
    /\ RoutingDone
    /\ routing.added_swaps >= 2
    /\ routing._qubit_map # [x \in Nodes |-> x]
    /\ routing.final_mapping # LayoutValues(routing.initial_layout)
    /\ IsPermutation(routing.final_mapping)

-----------------------------------------------------------------------------
(* Properties of transpilers/placer.py *)

\* the placement validity invariant for n qubits: the keys are exactly
\* q0..q(n-1) and the values are a permutation of 0..n-1
ValidPlacement(layout, n) ==
    /\ Len(layout) = n
    /\ {layout[k][1] : k \in 1..Len(layout)} = 0..(n - 1)
    /\ {layout[k][2] : k \in 1..Len(layout)} = 0..(n - 1)

PlacerDone(fn) == placer.fn = fn /\ placer.pc = "done"

\* C16: assert_placement(circuit, m) is true if and only if the keys of m
\* are exactly q0..q(n-1), its values are a permutation of 0..n-1 and n is
\* circuit.nqubits.
C16_AssertPlacementIffValid ==
    PlacerDone("assert_placement")
    => (placer.ok <=> ValidPlacement(placer.map.items, placer.circuit.nqubits))

\* the map Custom checks: a list is the dict of its positions
CustomMap == IF placer.map.type = "list" THEN Dict(placer.map.items) ELSE placer.map.items

\* C17: a layout returned by Trivial, by Random or by Custom satisfies the
\* placement validity invariant (for circuit.nqubits, for the number of
\* nodes of the connectivity, and for the circuit given to Custom or else
\* the length of the map), and Custom raises ValueError on a dict or a list
\* that does not satisfy it.
C17_PlacersReturnValidLayouts ==
    /\ PlacerDone("Trivial") => ValidPlacement(placer.layout, placer.circuit.nqubits)
    /\ PlacerDone("Random") => ValidPlacement(placer.layout, Cardinality(Nodes))
    /\ PlacerDone("Custom") =>
          /\ placer.layout = CustomMap
          /\ ValidPlacement(placer.layout, IF placer.circuit.given
                                           THEN placer.circuit.nqubits
                                           ELSE Len(placer.layout))
    /\ (/\ placer.fn = "Custom"
        /\ placer.pc \in {"done", "error"}
        /\ placer.map.type \in {"dict", "list"}
        /\ ~ValidPlacement(CustomMap, IF placer.circuit.given
                                      THEN placer.circuit.nqubits
                                      ELSE Len(CustomMap)))
          => placer.pc = "error" /\ placer.err = "ValueError"

\* Random has returned a sampled layout that is not the trivial one
C17_Witness ==
    /\ PlacerDone("Random")
    /\ placer.sampled = placer.samples
    /\ \E k \in 1..Len(placer.layout) : placer.layout[k][2] # k - 1

\* C18: the cost Random keeps is the length of the reduced circuit, the
\* number of two-qubit gates left after the longest prefix of gates on edges
\* of the relabelled graph; it is 0 exactly when every gate is on an edge.
C18_CostIsReducedLength ==
    (placer.fn = "Random" /\ placer.pc = "sampling")
    => placer.final_cost =
          Len(reduce(create_circuit_repr(placer.circuit.queue, 1),
                     relabel_nodes(placer.connectivity, Items(placer.final_mapping))))

\* C19: Subgraph raises ValueError exactly when the circuit has fewer than
\* two two-qubit gates.
C19_SubgraphValueError ==
    (placer.fn = "Subgraph" /\ placer.pc # "call")
    => (placer.err = "ValueError"
           <=> Len(create_circuit_repr(placer.circuit.queue, 1)) < 2)

-----------------------------------------------------------------------------
(* Properties of Platform.transpile *)

\* the pulses that the step has added to the sequence
AddedPulses ==
    SubSeq(transpiling'.sequence, Len(transpiling.sequence) + 1, Len(transpiling'.sequence))

\* the latest finish of the pulses of the sequence on any of the qubits, and
\* at least the start of the moment
EarliestFree(qubits) ==
    Maximum({transpiling.moment_start} \cup
            {transpiling.sequence[j].start + transpiling.sequence[j].duration :
                j \in {i \in 1..Len(transpiling.sequence) :
                          transpiling.sequence[i].qubit \in qubits}})

\* C20: when transpile processes a measurement gate it appends exactly one
\* readout pulse per target qubit, in target order, all starting at the
\* maximum of moment_start and the latest finish of the pulses already on
\* any target qubit, and gate.pulses holds their serials in that order.
C20_MeasurementSchedulesReadout ==
    [][AtGate({"M"}) =>
          LET gate == transpiling.queue[CurrentGate]
          IN /\ transpiling'.pc # "error"
             /\ SubSeq(transpiling'.sequence, 1, Len(transpiling.sequence))
                   = transpiling.sequence
             /\ Len(AddedPulses) = Len(gate.qubits)
             /\ \A k \in 1..Len(AddedPulses) :
                   /\ AddedPulses[k].type = "ro"
                   /\ AddedPulses[k].qubit = gate.qubits[k]
                   /\ AddedPulses[k].start = EarliestFree(Elements(gate.qubits))
             /\ transpiling'.pulses[CurrentGate] = AddedPulses]_transpiling

\* a measurement of two qubits has been scheduled after the start of its
\* moment, behind a flux pulse that a CZ gate of the same moment put on one
\* of its targets
C20_Witness ==
    /\ transpiling.pc = "gate"
    /\ \E g \in 1..Len(transpiling.queue) :
          /\ transpiling.queue[g].name = "M"
          /\ Len(transpiling.pulses[g]) = 2
          /\ transpiling.pulses[g][1].start > transpiling.moment_start

\* the step leaves the pulses that were in the sequence where they were
KeepsPulses ==
    SubSeq(transpiling'.sequence, 1, Len(transpiling.sequence)) = transpiling.sequence

\* the step adds angle to the virtual phase of the qubit and to no other
AddsPhase(qubit, angle) ==
    transpiling'.virtual_z_phases =
        [transpiling.virtual_z_phases EXCEPT ![qubit] = @ + angle]

\* C21: in transpile an identity, Z or RZ gate appends no pulse, Z adds pi
\* and RZ adds its angle to the virtual phase of its qubit; a U3(theta, phi,
\* lam) gate on a qubit of virtual phase p appends exactly two drive pulses
\* on it, the first at max(finish of the pulses of the qubit, moment_start)
\* with relative phase p + lam, the second at the finish of the first with
\* relative phase p + lam + theta - pi, and leaves the phase p + lam + theta
\* + phi.
C21_VirtualZAndU3 ==
    [][/\ AtGate({"I"}) =>
             /\ transpiling'.sequence = transpiling.sequence
             /\ transpiling'.virtual_z_phases = transpiling.virtual_z_phases
       /\ AtGate({"Z"}) =>
             /\ transpiling'.sequence = transpiling.sequence
             /\ AddsPhase(transpiling.queue[CurrentGate].qubits[1], Pi)
       /\ AtGate({"RZ"}) =>
             /\ transpiling'.sequence = transpiling.sequence
             /\ AddsPhase(transpiling.queue[CurrentGate].qubits[1],
                          transpiling.queue[CurrentGate].parameters[1])
       /\ AtGate({"U3"}) =>
             LET gate  == transpiling.queue[CurrentGate]
                 qubit == gate.qubits[1]
                 theta == gate.parameters[1]
                 phi   == gate.parameters[2]
                 lam   == gate.parameters[3]
                 p     == transpiling.virtual_z_phases[qubit]
             IN /\ KeepsPulses
                /\ Len(AddedPulses) = 2
                /\ \A k \in 1..2 : /\ AddedPulses[k].type = "qd"
                                   /\ AddedPulses[k].qubit = qubit
                /\ AddedPulses[1].start = EarliestFree({qubit})
                /\ AddedPulses[1].relative_phase = p + lam
                /\ AddedPulses[2].start = AddedPulses[1].start + AddedPulses[1].duration
                /\ AddedPulses[2].relative_phase = p + lam + theta - Pi
                /\ AddsPhase(qubit, lam + theta + phi)]_transpiling

\* Z(0) and then U3(0; 1, 2, 3) have been processed: the two pulses carry
\* the phases pi + 3 and pi + 3 + 1 - pi, and the register holds pi + 6
C21_Witness ==
    /\ transpiling.pc \in {"gate", "moment", "done"}
    /\ transpiling.virtual_z_phases[0] = Pi + 6
    /\ \E k \in 1..(Len(transpiling.sequence) - 1) :
          /\ transpiling.sequence[k].type = "qd"
          /\ transpiling.sequence[k].relative_phase = Pi + 3
          /\ transpiling.sequence[k + 1].relative_phase = 4
          /\ transpiling.sequence[k + 1].start
                = transpiling.sequence[k].start + transpiling.sequence[k].duration

\* the template calibrated for the CZ gate on <<a, b>>: the one under "a-b"
\* or, when there is none, the one under "b-a"; <<>> when there is neither
Template(qubits) ==
    LET under(a, b) == {n \in two_qubit_natives : n.key = <<a, b>>}
    IN IF under(qubits[1], qubits[2]) # {}
       THEN (CHOOSE n \in under(qubits[1], qubits[2]) : TRUE).CZ
       ELSE IF under(qubits[2], qubits[1]) # {}
       THEN (CHOOSE n \in under(qubits[2], qubits[1]) : TRUE).CZ
       ELSE <<>>

\* the sum of the virtual-Z phases of the template for the qubit
RECURSIVE TemplatePhase(_, _, _)
TemplatePhase(template, qubit, k) ==
    IF k > Len(template) THEN 0
    ELSE (IF template[k].type = "virtual_z" /\ template[k].qubit = qubit
          THEN template[k].phase ELSE 0) + TemplatePhase(template, qubit, k + 1)

\* C22: for a CZ gate on (a, b) transpile uses the template under "a-b" or
\* else under "b-a" and raises ValueError when there is neither; it appends
\* the flux pulses of the template, each shifted by the same offset
\* max(moment_start, latest finish of the pulses on any qubit of the gate or
\* of the template), and adds the virtual-Z phases of the template to the
\* registers of their qubits.
C22_CZTemplateShifted ==
    [][AtGate({"CZ"}) =>
          LET gate     == transpiling.queue[CurrentGate]
              template == Template(gate.qubits)
              flux     == SelectSeq(template, LAMBDA s : s.type = "qf")
              offset   == EarliestFree(Elements(gate.qubits)
                                          \cup {flux[k].qubit : k \in 1..Len(flux)})
          IN IF template = <<>>
             THEN transpiling'.pc = "error" /\ transpiling'.err = "ValueError"
             ELSE /\ transpiling'.pc # "error"
                  /\ KeepsPulses
                  /\ Len(AddedPulses) = Len(flux)
                  /\ \A k \in 1..Len(flux) :
                        /\ AddedPulses[k].type = "qf"
                        /\ AddedPulses[k].qubit = flux[k].qubit
                        /\ AddedPulses[k].duration = flux[k].duration
                        /\ AddedPulses[k].start = offset + flux[k].relative_start
                  /\ \A q \in PlatformQubits :
                        transpiling'.virtual_z_phases[q] =
                            transpiling.virtual_z_phases[q] + TemplatePhase(template, q, 1)]_transpiling

\* CZ(0, 1) has been placed with the template under "1-0" behind earlier
\* pulses: its flux pulses on qubits 1 and 2 keep their distance of 1 and
\* qubit 0 has the phase of the template
C22_Witness ==
    /\ transpiling.pc \in {"gate", "moment", "done"}
    /\ transpiling.virtual_z_phases[0] = 1
    /\ \E k \in 1..(Len(transpiling.sequence) - 1) :
          /\ transpiling.sequence[k].type = "qf"
          /\ transpiling.sequence[k].qubit = 1
          /\ transpiling.sequence[k].start > 0
          /\ transpiling.sequence[k + 1].type = "qf"
          /\ transpiling.sequence[k + 1].qubit = 2
          /\ transpiling.sequence[k + 1].start = transpiling.sequence[k].start + 1

\* the qubits that the gate at hand occupies: its own and, for a CZ gate,
\* those of the flux pulses of its template
GateQubits ==
    LET gate == transpiling.queue[CurrentGate]
        flux == IF gate.name = "CZ"
                THEN SelectSeq(Template(gate.qubits), LAMBDA s : s.type = "qf")
                ELSE <<>>
    IN Elements(gate.qubits) \cup {flux[k].qubit : k \in 1..Len(flux)}

\* the latest finish of the pulses of the sequence on any of the qubits
FreeTime(qubits) ==
    Maximum({0} \cup
            {transpiling.sequence[j].start + transpiling.sequence[j].duration :
                j \in {i \in 1..Len(transpiling.sequence) :
                          transpiling.sequence[i].qubit \in qubits}})

\* no two pulses of the sequence on the same qubit overlap in time
NoOverlap(sequence) ==
    \A i, j \in 1..Len(sequence) :
        (i # j /\ sequence[i].qubit = sequence[j].qubit)
        => \/ sequence[i].start + sequence[i].duration <= sequence[j].start
           \/ sequence[j].start + sequence[j].duration <= sequence[i].start

\* the earliest start among the pulses that the step has added
FirstAdded ==
    CHOOSE t \in {AddedPulses[k].start : k \in 1..Len(AddedPulses)} :
        \A k \in 1..Len(AddedPulses) : t <= AddedPulses[k].start

-----------------------------------------------------------------------------
(* Properties of the result containers *)

StateClasses == {"StateResults", "AveragedStateResults"}

\* an entry below 0 or above 1
OutOfRange(v) == v.num < 0 \/ v.num > v.den

\* the container holds the (bins x shots) array of 0/1 outcomes it was built from
BuiltFromOutcomes ==
    /\ result.cls \in StateClasses
    /\ result.pc = "ready"
    /\ result.assigned = 0
    /\ result._states[1].ndim = 2
    /\ Entries(result._states[1]) \subseteq {Frac(0, 1), Frac(1, 1)}

\* the number of shots of bin b that are equal to state, over the shots of the bin
Frequency(b, state) ==
    Frac(Cardinality({k \in 1..Len(result._states[1].rows[b]) :
                         result._states[1].rows[b][k] = Frac(state, 1)}),
         Len(result._states[1].rows[b]))

\* C24: for a StateResults built from a (bins x shots) array of 0/1 outcomes,
\* probability(state) is, for every bin, the number of shots of the bin equal
\* to state over the number of shots of a bin ([[0,1,1,0],[1,1,1,0]] and state
\* 1 give [0.5, 0.75]), and probability(0) + probability(1) is 1 in every bin
C24_ProbabilityIsFrequency ==
    BuiltFromOutcomes =>
       /\ result.state_0_probability # <<>> =>
             result.state_0_probability[1]
                = [b \in 1..Len(result._states[1].rows) |-> Frequency(b, 0)]
       /\ result.state_1_probability # <<>> =>
             /\ result.state_1_probability[1]
                   = [b \in 1..Len(result._states[1].rows) |-> Frequency(b, 1)]
             /\ result._states[1] = reshape(TwoBinsOfFour, 4) =>
                   /\ Equal(result.state_1_probability[1][1], Frac(1, 2))
                   /\ Equal(result.state_1_probability[1][2], Frac(3, 4))
       /\ result.state_0_probability # <<>> /\ result.state_1_probability # <<>> =>
             \A b \in 1..Len(result._states[1].rows) :
                Equal(Plus(result.state_0_probability[1][b],
                           result.state_1_probability[1][b]), Frac(1, 1))

\* both probabilities of the two bins of four have been read
C24_Witness ==
    /\ BuiltFromOutcomes
    /\ result.cls = "StateResults"
    /\ result._states[1] = reshape(TwoBinsOfFour, 4)
    /\ result.state_0_probability # <<>>
    /\ result.state_1_probability # <<>>

\* C25: a StateResults or AveragedStateResults whose state array has an entry
\* below 0 or above 1 is not constructed, ValueError is raised; the states of
\* a container stay within [0, 1] through later assignments; reading a
\* probability raises no ValueError; and StateResults.average always passes
\* the check
C25_StatesWithinUnitInterval ==
    result.cls \in StateClasses =>
       /\ result.op = "__init__"
             /\ (\E k \in 1..Len(result.args.states) : OutOfRange(result.args.states[k]))
          => result.pc = "raised" /\ result.err = "ValueError" /\ result._states = <<>>
       /\ result.pc = "ready" => \A v \in Entries(result._states[1]) : ~OutOfRange(v)
       /\ result.op \in {"state_0_probability", "state_1_probability"} =>
             result.err # "ValueError"
       /\ result.op = "average" =>
             /\ result.err = ""
             /\ result.averaged # <<>>
             /\ \A v \in Entries(result.averaged[1]) : ~OutOfRange(v)

\* the construction from a full grid whose only fault is an entry above 1 has raised
C25_Witness ==
    /\ result.cls = "StateResults"
    /\ result.op = "__init__"
    /\ result.pc = "raised"
    /\ result.args.shots = 2
    /\ Len(result.args.states) = 4
    /\ \E k \in 1..4 : result.args.states[k] = Frac(2, 1)
    /\ \A k \in 1..4 : result.args.states[k].num >= 0

\* C26: for IQResults a and b with the same number of shots per bin, a + b
\* is a new IQResults whose bins are the bins of a followed by the bins of b,
\* with their i and q shots; a and b are not modified
C26_AddConcatenatesBins ==
    /\ [](result.cls = "IQResults" /\ result.op = "__add__"
              /\ Len(result.a.i[1]) = Len(result.b.i[1])
           => /\ result.pc = "done"
              /\ result.sum # <<>>
              /\ Len(result.sum[1].i) = Len(result.a.i) + Len(result.b.i)
              /\ Len(result.sum[1].q) = Len(result.a.q) + Len(result.b.q)
              /\ \A k \in 1..Len(result.a.i) :
                    /\ result.sum[1].i[k] = result.a.i[k]
                    /\ result.sum[1].q[k] = result.a.q[k]
              /\ \A k \in 1..Len(result.b.i) :
                    /\ result.sum[1].i[Len(result.a.i) + k] = result.b.i[k]
                    /\ result.sum[1].q[Len(result.a.i) + k] = result.b.q[k])
    /\ [][result.a' = result.a /\ result.b' = result.b]_result

\* two bins have been put before three others
C26_Witness ==
    /\ result.cls = "IQResults"
    /\ result.pc = "done"
    /\ Len(result.a.i) = 2
    /\ Len(result.b.i) = 3
    /\ result.a.i[1] # result.b.i[1]
    /\ Len(result.sum[1].i) = 5

-----------------------------------------------------------------------------
(* Properties of the local oscillator *)

\* C27: after any assignments, connects and disconnects of a LocalOscillator:
\* whenever it is connected the device holds the cached value of every
\* parameter whose cached value is not None; an assignment always caches the
\* value, leaves the device alone while disconnected, writes the value to the
\* device at once while connected, and causes no device write when the value
\* is the cached one
C27_DeviceFollowsCache ==
    /\ [](oscillator.is_connected =>
             \A p \in Parameters :
                oscillator.settings[p] # "None" => oscillator.device[p] = oscillator.settings[p])
    /\ [][oscillator'.op = "setter" =>
             /\ oscillator'.settings[oscillator'.parameter] = oscillator'.value
             /\ oscillator.settings[oscillator'.parameter] = oscillator'.value =>
                   oscillator'.written = {} /\ oscillator'.device = oscillator.device
             /\ IF oscillator.is_connected
                THEN oscillator'.device[oscillator'.parameter] = oscillator'.value
                        \/ oscillator.settings[oscillator'.parameter] = oscillator'.value
                ELSE oscillator'.device = oscillator.device /\ oscillator'.written = {}
       ]_oscillator

\* a connect has uploaded a frequency that was set while disconnected and
\* has filled the power from the device
C27_Witness ==
    /\ oscillator.is_connected
    /\ oscillator.op = "connect"
    /\ oscillator.err = ""
    /\ oscillator.parameter = "frequency"
    /\ oscillator.value = "high"
    /\ "frequency" \in oscillator.written
    /\ "power" \notin oscillator.written
    /\ oscillator.device["frequency"] = "high"

-----------------------------------------------------------------------------
(* Properties of Platform.update *)

\* the characterization parameters of update and the Qubit field of each
UpdatedField ==
    [readout_frequency |-> "readout_frequency",
     bare_resonator_frequency |-> "bare_resonator_frequency",
     sweetspot |-> "sweetspot", drive_frequency |-> "drive_frequency",
     t1 |-> "T1", t2 |-> "T2", t2_spin_echo |-> "T2_spin_echo",
     threshold |-> "threshold", iq_angle |-> "iq_angle",
     mean_gnd_states |-> "mean_gnd_states", mean_exc_states |-> "mean_exc_states"]

\* the value a parameter is stored as
Stored(par, value) ==
    IF par \in {"readout_frequency", "bare_resonator_frequency", "drive_frequency"}
    THEN <<"int", value * 1000000000>>
    ELSE IF par \in {"mean_gnd_states", "mean_exc_states"}
         THEN <<"str", value>>
         ELSE <<"float", value>>

\* C28: after any sequence of update calls with supported parameters, for
\* every qubit and every characterization parameter that was updated, the
\* field of the Qubit equals the value of the settings, which is the value
\* of the last update, the reload_settings at the end of update included
C28_QubitsFollowSettings ==
    updating.pc = "idle" /\ ~updating.unsupported =>
       \A q \in RuncardQubits : \A par \in DOMAIN UpdatedField :
          updating.last[q][par] # <<>> =>
             /\ updating.qubits[q][UpdatedField[par]] = updating.settings[q][UpdatedField[par]]
             /\ updating.settings[q][UpdatedField[par]] = Stored(par, updating.last[q][par][1])

\* two calls have updated the threshold of a qubit, the second one to
\* another value
C28_Witness ==
    /\ updating.pc = "idle"
    /\ ~updating.unsupported
    /\ updating.n = 2
    /\ updating.seen = {<<"threshold", 1>>}
    /\ updating.last[1]["threshold"] = <<2>>
    /\ updating.qubits[1]["thresold"] = <<"float", 2>>
    /\ updating.qubits[1]["threshold"] = <<"float", 2>>

-----------------------------------------------------------------------------
(* Properties of ERASynthEthernet.post *)

\* the attempts that timed out or failed to connect
FailedAttempts ==
    {"ReadTimeout", "builtins.ConnectionError", "builtins.TimeoutError",
     "requests.ConnectionError"}

\* C31: post sends at most MAX_RECONNECTION_ATTEMPTS requests; it returns
\* True at the first response with status 200; a request follows only an
\* attempt that timed out or failed to connect; when no attempt has
\* returned status 200 it raises ConnectionError, after
\* MAX_RECONNECTION_ATTEMPTS failed attempts or at once after a response
\* with another status; it never returns without a 200 response
C31_PostRetriesThenRaises ==
    /\ Len(posting.requests) <= MAX_RECONNECTION_ATTEMPTS
    /\ \A k \in 1..(Len(posting.requests) - 1) : posting.requests[k] \in FailedAttempts
    /\ posting.pc = "returned" =>
          /\ posting.returns = "True"
          /\ posting.requests[Len(posting.requests)] = "200"
    /\ posting.pc = "raised" =>
          /\ posting.raises = "builtins.ConnectionError"
          /\ \A k \in 1..Len(posting.requests) : posting.requests[k] # "200"
          /\ \/ /\ Len(posting.requests) = MAX_RECONNECTION_ATTEMPTS
                /\ \A k \in 1..Len(posting.requests) : posting.requests[k] \in FailedAttempts
             \/ posting.requests[Len(posting.requests)] = "404"
    /\ (posting.pc = "loop" /\ posting.requests # <<>>) =>
          posting.requests[Len(posting.requests)] \in FailedAttempts

-----------------------------------------------------------------------------
(* Properties of the connection of a MultiqubitPlatform *)

\* C32: setup and execute_pulse_sequence raise RuntimeError and call no
\* instrument method when the platform is not connected; connect on a
\* connected platform and start, stop and disconnect on one that is not
\* connected call no instrument method; is_connected is true exactly when
\* the last successful connect has not been followed by a disconnect
C32_CallsNeedConnection ==
    /\ [](lifecycle.pc = "running" => (lifecycle.is_connected <=> lifecycle.open))
    /\ [][/\ lifecycle'.op \in {"setup", "execute_pulse_sequence"} /\ ~lifecycle.is_connected
              => lifecycle'.err = "RuntimeError" /\ lifecycle'.calls = <<>>
          /\ lifecycle'.op = "connect" /\ lifecycle.is_connected
              => lifecycle'.calls = <<>>
          /\ lifecycle'.op \in {"start", "stop", "disconnect"} /\ ~lifecycle.is_connected
              => lifecycle'.calls = <<>>
          /\ lifecycle'.op \in {"setup", "execute_pulse_sequence", "start", "stop"}
              => lifecycle'.is_connected = lifecycle.is_connected
       ]_lifecycle

\* setup has been refused on a platform that was connected and then
\* disconnected
C32_Witness ==
    /\ lifecycle.op = "setup"
    /\ lifecycle.err = "RuntimeError"
    /\ lifecycle.calls = <<>>
    /\ ~lifecycle.is_connected
    /\ lifecycle.tried
    /\ \A k \in InstrumentNames : ~lifecycle.connected[k] /\ lifecycle.reachable[k]

\* C35: when the process is ended by a termination signal in a state in
\* which some instrument is connected, stop has been called on every
\* instrument of the platform before the exit
C35_TerminationStopsInstruments ==
    (lifecycle.pc = "exited" /\ \E k \in InstrumentNames : lifecycle.connected[k])
    => \A k \in InstrumentNames :
          \E c \in 1..Len(lifecycle.calls) : lifecycle.calls[c] = <<k, "stop">>

\* C40: connect is all-or-nothing: when the connect of an instrument
\* raises, the platform raises RuntimeError, is not connected and no
\* instrument is left connected; a connect on a platform that is not
\* connected succeeds when every instrument is reachable
C40_ConnectAllOrNothing ==
    lifecycle.op = "connect" /\ lifecycle.tried =>
       /\ lifecycle.err = "RuntimeError" =>
             ~lifecycle.is_connected /\ \A k \in InstrumentNames : ~lifecycle.connected[k]
       /\ (\A k \in InstrumentNames : lifecycle.reachable[k]) =>
             lifecycle.err = "" /\ lifecycle.is_connected

-----------------------------------------------------------------------------
(* Properties of the LO frequencies in execute_pulse_sequence *)

QbloxRF == {"ClusterQRM_RF", "ClusterQCM_RF"}

\* C33: when readout or drive pulses on one port of a Qblox RF module imply
\* different LO frequencies, execute_pulse_sequence raises ValueError before
\* play_sequence has been called on any instrument; otherwise the
\* lo_frequency of every port that has such pulses is the common value when
\* the instrument is uploaded
C33_LoConflictRaisesBeforePlay ==
    [][eps.pc = "upload" /\ instruments[eps.idx].class \in QbloxRF =>
          LET i   == eps.idx
              ins == instruments[i]
          IN IF \E c \in ins.channels : \E a, b \in PortLos(eps.sequence, c) : a # b
             THEN /\ err' = "ValueError"
                  /\ status' = "error"
                  /\ eps.played = {}
                  /\ i \notin eps.uploaded
             ELSE /\ i \in eps'.uploaded
                  /\ eps'.played = {}
                  /\ \A c \in ins.channels :
                        {lo \in {1, 2} : <<i, c, lo>> \in eps'.lo_frequency}
                           = PortLos(eps.sequence, c)
    ]_eps

\* a sequence whose readout pulses need two LO frequencies on the port of a
\* readout module has been refused, after the upload of another instrument
C33_Witness ==
    /\ status = "error"
    /\ err = "ValueError"
    /\ call.sweepers = <<>>
    /\ is_connected
    /\ \E i \in 2..Len(instruments) :
          /\ instruments[i].class \in QbloxRF
          /\ LoConflict(call.sequence, instruments[i])
          /\ instruments[1].class = "ClusterQCM_RF"

-----------------------------------------------------------------------------
(* Properties of Zurich.create_sub_sequences *)

\* C34: create_sub_sequences returns one subsequence per measurement index,
\* subsequence i holds the i-th measurement of every measure channel, and
\* every control pulse is in exactly one subsequence, the one of the first
\* measurement that starts no earlier than the pulse finishes
C34_SubSequencesFollowMeasurements ==
    splitting.pc \in {"returned", "raised"} =>
       LET sequence == splitting.sequence
       IN /\ splitting.pc = "returned"
          /\ Len(splitting.measurements) = NumGroups(sequence)
          /\ \A i \in 1..NumGroups(sequence) :
                splitting.measurements[i] =
                   {<<ch, sequence[ch][i]>> : ch \in {c \in measure_channels : Len(sequence[c]) >= i}}
          /\ \A ch \in ControlChannels : \A k \in 1..Len(sequence[ch]) :
                /\ Cardinality({c \in splitting.control_sequence :
                                  c[2] = ch /\ c[3] = sequence[ch][k]}) = 1
                /\ <<advance_to_measurement(sequence, sequence[ch][k], 0), ch, sequence[ch][k]>>
                      \in splitting.control_sequence

-----------------------------------------------------------------------------
(* Properties of Zurich.sweep and Zurich.play *)

\* the axes of the sweepers in the order of the caller
CallerAxes(sweepers) == [k \in 1..Len(sweepers) |-> AxisOf(sweepers[k])]

\* C38: the arrays Zurich.sweep returns have the axes of the sweepers in the
\* order in which the caller gave the sweepers, after the axis of the shots
\* when the shots are not averaged
C38_SweepAxesInCallerOrder ==
    zurich.op = "sweep" /\ zurich.err = "" =>
       LET IsSweep(axis) == axis # "shots"
       IN SelectSeq(zurich.axes, IsSweep) = CallerAxes(zurich.args.sweepers)

\* C39: a play builds the experiment that a driver which has never swept
\* builds for the same sequence and options
C39_PlayAfterSweepIsFresh ==
    zurich.op = "play" /\ zurich.err = "" =>
       zurich.experiment =
          experiment_flow(ZurichCreated, zurich.args.sequence, zurich.args.options).experiment

====
